---- MODULE Spec2Model ----
(***************************************************************************)
(* Model of the prediction engine (server/prediction/prediction_engine.py) *)
(* and of the HTTP server that shares one engine instance between requests *)
(* (server/prediction/engine_server.py).                                   *)
(*                                                                         *)
(* Numbers.  Prices are exact decimals with one fractional digit, held as  *)
(* an integer number of tenths (9 is 0.9, 10001 is 1000.1).  A predicted   *)
(* close before rounding is the exact rational n / Den tenths, held as its *)
(* numerator n; round(x, 4) yields an integer number of 1e-4 units.  The   *)
(* binary rounding error of Python floats is not modelled.                 *)
(*                                                                         *)
(* JSON values.  A value is Num(n) (a number) or Txt (a string that        *)
(* float() rejects); a dict is a function whose DOMAIN is the set of keys  *)
(* present.                                                                *)
(***************************************************************************)
EXTENDS Integers, Sequences, FiniteSets, TLC

VARIABLES
    engine,              \* the server's global PredictionEngine instance
    engine_initialized,  \* the server's global flag
    now,                 \* logical clock behind datetime.now()
    last,                \* the last operation with its result (observer)
    prev,                \* the operation before it (observer)
    feeds,               \* requests that fed the engine since the last reset (observer)
    thr                  \* per worker thread: position in predict() and locals

vars == <<engine, engine_initialized, now, last, prev, feeds, thr>>

----------------------------------------------------------------------------
(* Bounds of the model *)

\* predictions made since process start (bounds the clock and the ledger)
MaxClock == 3

\* requests admitted by the concurrent server since process start
MaxPedidos == 2

\* predictions recorded by an engine used as a library
MaxPredicoes == 2

\* confirmations counted since the engine was created
MaxConfirmacoes == 2

----------------------------------------------------------------------------
(* JSON values and candles *)

Num(n) == [n |-> n, k |-> "num"]

Txt == [n |-> 0, k |-> "str"]

\* float(v) succeeds
FloatOk(v) == v.k = "num"

\* float(v) when it succeeds
FloatVal(v) == v.n

Candle(o, h, l, c) ==
    [abertura |-> Num(o), maxima |-> Num(h), minima |-> Num(l), fechamento |-> Num(c)]

\* a flat candle repeated n times
Rep(c, n) == [i \in 1..n |-> c]

----------------------------------------------------------------------------
(* Program constants *)

\* self.fase_detectada = None
NoFase == 0

\* self.chave_ativa_fase1 = None
NoChave == "None"

\* media_abertura > 1000, in tenths
LimiarFase2 == 10000

\* len(dados) < 10
MinCandlesChave == 10

\* len(dados) < 5
MinCandlesTeste == 5

\* common denominator of the prediction formulas (0.6, 0.382, 0.5, 0.618, 1/3)
Den == 3 * 1000

\* the order of funcoes_chave (dict insertion order)
ChavesFase1 == <<"sum_last_3", "1st_digit_parity", "decimal_pattern", "last_integer_digit">>

----------------------------------------------------------------------------
(* PredictionEngine *)

\* PredictionEngine.__init__
NewEngine ==
    [fase_detectada |-> NoFase,
     chave_ativa_fase1 |-> NoChave,
     historico_predicoes |-> <<>>,
     estatisticas |-> [total_predicoes |-> 0, acertos |-> 0,
                       assertividade |-> [n |-> 0, d |-> 1]]]

\* candle.get('abertura', 0)
GetAbertura(candle) ==
    IF "abertura" \in DOMAIN candle THEN candle.abertura ELSE Num(0)

RECURSIVE SomaAberturas(_, _)
\* sum of float(candle.get('abertura', 0)) over the first i candles
SomaAberturas(dados, i) ==
    IF i = 0 THEN 0
    ELSE SomaAberturas(dados, i - 1) + FloatVal(GetAbertura(dados[i]))

\* faulty variant of MediaAcimaLimiar: the threshold itself counts as Phase 2
MediaAcimaOuIgual(dados) ==
    SomaAberturas(dados, Len(dados)) >= LimiarFase2 * Len(dados)

\* np.mean(aberturas) > 1000, on the exact sum
MediaAcimaLimiar(dados) ==
    SomaAberturas(dados, Len(dados)) > LimiarFase2 * Len(dados)

\* detectar_fase: [eng, ret, raised]
detectar_fase(eng, dados) ==
    IF dados = <<>> THEN [eng |-> eng, ret |-> 1, raised |-> FALSE]
    ELSE IF \E i \in 1..Len(dados) : ~FloatOk(GetAbertura(dados[i]))
    THEN [eng |-> eng, ret |-> 0, raised |-> TRUE]
    ELSE LET fase == IF MediaAcimaLimiar(dados) THEN 2 ELSE 1
         IN  [eng |-> [eng EXCEPT !.fase_detectada = fase],
              ret |-> fase, raised |-> FALSE]

\* |x| of a price in tenths
Abs(x) == IF x < 0 THEN -x ELSE x

\* integer part of |x| and its fractional digit, as str(x) prints them
ParteInteira(x) == Abs(x) \div 10

DigitoDecimal(x) == Abs(x) % 10

RECURSIVE PrimeiroDigito(_)
\* the leading decimal digit of a natural number
PrimeiroDigito(n) == IF n < 10 THEN n ELSE PrimeiroDigito(n \div 10)

\* the key function throws on x (int('-') on the sign of a negative number)
ChaveLanca(nome, x) ==
    CASE nome = "sum_last_3" -> x < 0 /\ ParteInteira(x) < 10
      [] nome = "1st_digit_parity" -> x < 0
      [] OTHER -> FALSE

\* the key function's value is > 0.5
ChaveVerde(nome, x) ==
    CASE nome = "sum_last_3" ->
            (DigitoDecimal(x) + (ParteInteira(x) % 10)
               + ((ParteInteira(x) \div 10) % 10)) % 2 = 1
      [] nome = "1st_digit_parity" -> PrimeiroDigito(ParteInteira(x)) % 2 = 1
      [] nome = "decimal_pattern" -> (DigitoDecimal(x) % 10) > 5
      [] nome = "last_integer_digit" -> (ParteInteira(x) % 10) % 2 = 1

\* the loop body for pair (i-1, i) completes without an exception
ParUsavel(dados, nome, i) ==
    /\ "abertura" \in DOMAIN dados[i-1] /\ FloatOk(dados[i-1].abertura)
    /\ "fechamento" \in DOMAIN dados[i] /\ FloatOk(dados[i].fechamento)
    /\ ~ChaveLanca(nome, FloatVal(dados[i-1].abertura))
    /\ "abertura" \in DOMAIN dados[i] /\ FloatOk(dados[i].abertura)

\* predicao_cor == cor_real on pair (i-1, i)
ParAcerto(dados, nome, i) ==
    ChaveVerde(nome, FloatVal(dados[i-1].abertura))
        <=> (FloatVal(dados[i].fechamento) > FloatVal(dados[i].abertura))

\* _testar_chave_fase1: the score acertos / total as the fraction [n, d]
testar_chave_fase1(dados, nome) ==
    IF Len(dados) < MinCandlesTeste THEN [n |-> 0, d |-> 1]
    ELSE LET usaveis == {i \in 2..Len(dados) : ParUsavel(dados, nome, i)}
             acertos == {i \in usaveis : ParAcerto(dados, nome, i)}
         IN  IF Cardinality(usaveis) > 0
             THEN [n |-> Cardinality(acertos), d |-> Cardinality(usaveis)]
             ELSE [n |-> 0, d |-> 1]

\* faulty variant of FracMaior: a tie also replaces the best key so far
FracMaiorOuIgual(a, b) == a.n * b.d >= b.n * a.d

\* a > b on fractions with positive denominators
FracMaior(a, b) == a.n * b.d > b.n * a.d

RECURSIVE MelhorChave(_, _, _, _)
\* the loop over funcoes_chave from position k on: the final melhor_chave
MelhorChave(dados, k, melhor_chave, melhor_score) ==
    IF k > Len(ChavesFase1) THEN melhor_chave
    ELSE LET score == testar_chave_fase1(dados, ChavesFase1[k])
         IN  IF FracMaior(score, melhor_score)
             THEN MelhorChave(dados, k + 1, ChavesFase1[k], score)
             ELSE MelhorChave(dados, k + 1, melhor_chave, melhor_score)

\* descobrir_chave_fase1: [eng, ret]
descobrir_chave_fase1(eng, dados) ==
    IF Len(dados) < MinCandlesChave
    THEN [eng |-> eng, ret |-> "sum_last_3"]
    ELSE LET melhor == MelhorChave(dados, 1, "sum_last_3", [n |-> 0, d |-> 1])
         IN  [eng |-> [eng EXCEPT !.chave_ativa_fase1 = melhor], ret |-> melhor]

\* alimentar_dados: [eng, res]
alimentar_dados(eng, dados) ==
    LET d == detectar_fase(eng, dados)
        c == descobrir_chave_fase1(d.eng, dados)
    IN  IF d.raised
        THEN [eng |-> eng, res |-> [sucesso |-> FALSE, erro |-> "float"]]
        ELSE IF d.ret = 1
        THEN [eng |-> c.eng,
              res |-> [sucesso |-> TRUE, total_candles |-> Len(dados),
                       fase_detectada |-> d.ret,
                       estrategia |-> <<"Chave", c.ret>>,
                       chave_fase1 |-> c.eng.chave_ativa_fase1]]
        ELSE [eng |-> d.eng,
              res |-> [sucesso |-> TRUE, total_candles |-> Len(dados),
                       fase_detectada |-> d.ret,
                       estrategia |-> <<"Fibonacci da Amplitude">>,
                       chave_fase1 |-> NoChave]]

\* a coefficient given in thousandths (600 is 0.6), over Den
Coef(m) == m * (Den \div 1000)

\* faulty variant of algoritmo_fibonacci_amplitude: the bearish branch retraces
\* the distance to the high
algoritmo_fibonacci_espelhado(abertura, maxima, minima) ==
    IF 2 * abertura < maxima + minima
    THEN Den * abertura + Coef(618) * (maxima - abertura)
    ELSE Den * abertura - Coef(618) * (maxima - abertura)

\* faulty variant of algoritmo_fibonacci_amplitude: an open equal to the midpoint
\* takes the bullish branch
algoritmo_fibonacci_le(abertura, maxima, minima) ==
    IF 2 * abertura <= maxima + minima
    THEN Den * abertura + Coef(618) * (maxima - abertura)
    ELSE Den * abertura - Coef(618) * (abertura - minima)

\* faulty variant of algoritmo_fibonacci_amplitude: the extension 1.618 in the
\* place of the retracement 0.618
algoritmo_fibonacci_extensao(abertura, maxima, minima) ==
    IF 2 * abertura < maxima + minima
    THEN Den * abertura + Coef(1618) * (maxima - abertura)
    ELSE Den * abertura - Coef(1618) * (abertura - minima)

\* algoritmo_fibonacci_amplitude on floats: the numerator of fechamento over Den
algoritmo_fibonacci_amplitude(abertura, maxima, minima) ==
    IF 2 * abertura < maxima + minima
    THEN Den * abertura + Coef(618) * (maxima - abertura)
    ELSE Den * abertura - Coef(618) * (abertura - minima)

\* faulty variant of predizer_fase1: a key outside the table yields the open
predizer_fase1_abertura(abertura, maxima, minima, chave_ativa) ==
    CASE chave_ativa = "sum_last_3" -> Den * minima + Coef(600) * (maxima - minima)
      [] chave_ativa = "1st_digit_parity" -> (Den \div 3) * (abertura + maxima + minima)
      [] chave_ativa = "decimal_pattern" -> Den * minima + Coef(382) * (maxima - minima)
      [] chave_ativa = "last_integer_digit" -> Den * abertura + Coef(500) * (maxima - abertura)
      [] OTHER -> Den * abertura

\* predizer_fase1 on floats: the numerator of the result over Den
predizer_fase1(abertura, maxima, minima, chave_ativa) ==
    CASE chave_ativa = "sum_last_3" -> Den * minima + Coef(600) * (maxima - minima)
      [] chave_ativa = "1st_digit_parity" -> (Den \div 3) * (abertura + maxima + minima)
      [] chave_ativa = "decimal_pattern" -> Den * minima + Coef(382) * (maxima - minima)
      [] chave_ativa = "last_integer_digit" -> Den * abertura + Coef(500) * (maxima - abertura)
      [] OTHER -> (Den \div 3) * (abertura + maxima + minima)

\* the integer nearest to n / d (d > 0), ties to the even one, as round() does
RoundHalfEven(n, d) ==
    LET q == n \div d
        r == n - q * d
    IN  IF 2 * r < d THEN q
        ELSE IF 2 * r > d THEN q + 1
        ELSE IF q % 2 = 0 THEN q ELSE q + 1

\* round(x, 4) of x = n / Den tenths, in 1e-4 units
Round4(n) == RoundHalfEven(n, Den \div 1000)

\* a price in tenths, in 1e-4 units
Em1e4(x) == x * 1000

\* faulty variant of fase_lida: the phase of the previous prediction is reused
\* when the ledger holds one
fase_lida_do_ledger(eng) ==
    IF eng.historico_predicoes # <<>>
    THEN eng.historico_predicoes[Len(eng.historico_predicoes)].fase_usada
    ELSE IF eng.fase_detectada = NoFase THEN 2 ELSE eng.fase_detectada

\* fazer_predicao, line 204: self.fase_detectada or 2
fase_lida(eng) == IF eng.fase_detectada = NoFase THEN 2 ELSE eng.fase_detectada

\* fazer_predicao, lines 212-226, on floats in any one unit: the predicted
\* close before rounding (its numerator over Den), the label, the colour and
\* the position
calcular_predicao(fase, chave, a, mx, mn) ==
    LET fechamento_pred ==
            IF fase = 1 THEN predizer_fase1(a, mx, mn, chave)
            ELSE algoritmo_fibonacci_amplitude(a, mx, mn)
        cor_pred == IF fechamento_pred > Den * a THEN "Verde" ELSE "Vermelho"
    IN  [fechamento_pred |-> fechamento_pred,
         algoritmo_usado |-> IF fase = 1 THEN <<"Fase 1", chave>>
                             ELSE <<"Fibonacci da Amplitude">>,
         cor_pred |-> cor_pred,
         posicao |-> IF cor_pred = "Verde" THEN "CALL" ELSE "PUT"]

\* fazer_predicao after line 204, with the phase read there, the clock
\* reading ts and prices of u 1e-4 units each (1000 for tenths):
\* [eng, res, raised]
fazer_predicao_escala(eng, fase, abertura, maxima, minima, ts, u) ==
    IF FloatOk(abertura) /\ FloatOk(maxima) /\ FloatOk(minima)
    THEN LET a == FloatVal(abertura)
             mx == FloatVal(maxima)
             mn == FloatVal(minima)
             c == calcular_predicao(fase, eng.chave_ativa_fase1, a, mx, mn)
             predicao ==
                 [fechamento_predito |-> RoundHalfEven(c.fechamento_pred, Den \div u),
                  cor_predita |-> c.cor_pred,
                  posicao |-> c.posicao,
                  fase_usada |-> fase,
                  algoritmo |-> c.algoritmo_usado,
                  timestamp |-> ts,
                  abertura_usada |-> a,
                  maxima_usada |-> mx,
                  minima_usada |-> mn]
         IN  [eng |-> [eng EXCEPT !.historico_predicoes = Append(@, predicao)],
              res |-> predicao, raised |-> FALSE]
    ELSE IF FloatOk(abertura)
    THEN [eng |-> eng,
          res |-> [erro |-> "float", fechamento_predito |-> FloatVal(abertura) * u,
                   cor_predita |-> "Erro", posicao |-> "NENHUMA"],
          raised |-> FALSE]
    ELSE [eng |-> eng, res |-> [erro |-> "float"], raised |-> TRUE]

\* fazer_predicao after line 204 on prices in tenths: [eng, res, raised]
fazer_predicao_com(eng, fase, abertura, maxima, minima, ts) ==
    fazer_predicao_escala(eng, fase, abertura, maxima, minima, ts, 1000)

\* fazer_predicao: [eng, res, raised]
fazer_predicao(eng, abertura, maxima, minima, ts) ==
    fazer_predicao_com(eng, fase_lida(eng), abertura, maxima, minima, ts)

\* faulty variant of confirmar_resultado: the colour that was observed is
\* written into the ledger entry that is scored
confirmar_resultado_anota(eng, fechamento_real) ==
    IF eng.historico_predicoes = <<>>
    THEN [eng |-> eng, res |-> [erro |-> "Nenhuma predicao para confirmar"]]
    ELSE IF ~FloatOk(fechamento_real)
    THEN [eng |-> eng, res |-> [erro |-> "float"]]
    ELSE LET n == Len(eng.historico_predicoes)
             ultima_predicao == eng.historico_predicoes[n]
             real == FloatVal(fechamento_real)
             erro_absoluto == Abs(Em1e4(real) - ultima_predicao.fechamento_predito)
             cor_real == IF real > ultima_predicao.abertura_usada
                         THEN "Verde" ELSE "Vermelho"
             acerto_cor == cor_real = ultima_predicao.cor_predita
             total == eng.estatisticas.total_predicoes + 1
             acertos == eng.estatisticas.acertos + (IF acerto_cor THEN 1 ELSE 0)
             assertividade == [n |-> acertos * 100, d |-> total]
         IN  [eng |-> [eng EXCEPT !.historico_predicoes[n].cor_predita = cor_real,
                                  !.estatisticas =
                                      [total_predicoes |-> total, acertos |-> acertos,
                                       assertividade |-> assertividade]],
              res |-> [fechamento_real |-> real,
                       fechamento_predito |-> ultima_predicao.fechamento_predito,
                       erro_absoluto |-> erro_absoluto,
                       cor_real |-> cor_real,
                       cor_predita |-> ultima_predicao.cor_predita,
                       acerto_cor |-> acerto_cor,
                       assertividade_atual |-> assertividade]]

\* confirmar_resultado: [eng, res]
confirmar_resultado(eng, fechamento_real) ==
    IF eng.historico_predicoes = <<>>
    THEN [eng |-> eng, res |-> [erro |-> "Nenhuma predicao para confirmar"]]
    ELSE IF ~FloatOk(fechamento_real)
    THEN [eng |-> eng, res |-> [erro |-> "float"]]
    ELSE LET ultima_predicao == eng.historico_predicoes[Len(eng.historico_predicoes)]
             real == FloatVal(fechamento_real)
             erro_absoluto == Abs(Em1e4(real) - ultima_predicao.fechamento_predito)
             cor_real == IF real > ultima_predicao.abertura_usada
                         THEN "Verde" ELSE "Vermelho"
             acerto_cor == cor_real = ultima_predicao.cor_predita
             total == eng.estatisticas.total_predicoes + 1
             acertos == eng.estatisticas.acertos + (IF acerto_cor THEN 1 ELSE 0)
             assertividade == [n |-> acertos * 100, d |-> total]
         IN  [eng |-> [eng EXCEPT !.estatisticas =
                          [total_predicoes |-> total, acertos |-> acertos,
                           assertividade |-> assertividade]],
              res |-> [fechamento_real |-> real,
                       fechamento_predito |-> ultima_predicao.fechamento_predito,
                       erro_absoluto |-> erro_absoluto,
                       cor_real |-> cor_real,
                       cor_predita |-> ultima_predicao.cor_predita,
                       acerto_cor |-> acerto_cor,
                       assertividade_atual |-> assertividade]]

\* obter_estatisticas
obter_estatisticas(eng) ==
    [fase_detectada |-> eng.fase_detectada,
     chave_fase1 |-> eng.chave_ativa_fase1,
     total_predicoes |-> eng.estatisticas.total_predicoes,
     acertos |-> eng.estatisticas.acertos,
     assertividade |-> eng.estatisticas.assertividade,
     total_historico |-> Len(eng.historico_predicoes)]

----------------------------------------------------------------------------
(* Inputs: histories, partial candles, request bodies *)

\* Phase 1, fewer than 10 candles
HistCurtoFase1 == <<Candle(9, 11, 8, 10), Candle(10, 12, 9, 9), Candle(8, 9, 7, 9)>>

\* Phase 1, 11 candles opening at 0.6 and closing above: only decimal_pattern
\* (digit 6) predicts green
HistLongoDecimal == Rep(Candle(6, 9, 5, 8), MinCandlesChave + 1)

\* Phase 1, 10 candles opening at 1.6 and closing below: every key predicts
\* green, every score is 0
HistLongoZero == Rep(Candle(16, 17, 14, 15), MinCandlesChave)

\* Phase 2: mean open 1000.1
HistFase2 == <<Candle(10001, 10003, 10000, 10002), Candle(10001, 10002, 9999, 10000)>>

\* mean open exactly 1000.0
HistLimiar == <<Candle(9999, 10000, 9998, 10000), Candle(10001, 10002, 10000, 10000)>>

\* the first candle has no abertura; the other's open is 2000.2
HistSemAbertura ==
    <<[maxima |-> Num(10), minima |-> Num(8), fechamento |-> Num(9)],
      Candle(20002, 20003, 20001, 20002)>>

\* a candle whose abertura is not a number
HistInvalido == <<[abertura |-> Txt, maxima |-> Num(10), minima |-> Num(8),
                   fechamento |-> Num(9)]>>

Historicos ==
    {<<>>, HistCurtoFase1, HistLongoDecimal, HistLongoZero, HistFase2, HistLimiar,
     HistSemAbertura, HistInvalido}

\* partial_current of a request
Parcial(a, mx, mn) ==
    [abertura |-> Num(a), maxima_parcial |-> Num(mx), minima_parcial |-> Num(mn)]

\* a request body
Corpo(symbol, tf, history, partial) ==
    [symbol |-> symbol, tf |-> tf, history |-> history, partial_current |-> partial]

\* the body with one key removed
SemCampo(data, campo) == [f \in DOMAIN data \ {campo} |-> data[f]]

\* the empty JSON object
CorpoVazio == [f \in {} |-> 0]

\* request bodies the clients send
Corpos ==
    <<Corpo("R_100", "M15", HistFase2, Parcial(10, 20, 0)),
      Corpo("frxUSDJPY", "M15", HistCurtoFase1, Parcial(10, 20, 0)),
      Corpo("frxUSDJPY", "M30", HistLongoDecimal, Parcial(10, 20, 0)),
      Corpo("R_100", "M15", HistFase2, Parcial(15, 20, 0)),
      Corpo("R_50", "M15", <<>>, Parcial(10, 20, 0)),
      Corpo("R_50", "M15", HistInvalido, Parcial(10, 20, 0)),
      Corpo("R_100", "M60", HistFase2, Parcial(10, 20, 0)),
      SemCampo(Corpo("R_100", "M15", HistFase2, Parcial(10, 20, 0)), "history"),
      SemCampo(Corpo("R_100", "M15", HistFase2, Parcial(10, 20, 0)), "symbol"),
      Corpo("R_100", "M15", HistCurtoFase1, SemCampo(Parcial(10, 20, 0), "abertura")),
      Corpo("R_100", "M15", HistFase2,
            [abertura |-> Num(10), maxima_parcial |-> Txt, minima_parcial |-> Num(0)]),
      CorpoVazio,
      SemCampo(SemCampo(Corpo("R_100", "M15", HistFase2, Parcial(10, 20, 0)), "tf"),
               "partial_current")>>

----------------------------------------------------------------------------
(* engine_server.py *)

\* required_fields, in the order of the check
required_fields == <<"symbol", "tf", "history", "partial_current">>

\* the fields of required_fields missing from data, by position
Faltantes(data) == {i \in 1..Len(required_fields) : required_fields[i] \notin DOMAIN data}

\* the smallest element of a non-empty set of integers
Min(S) == CHOOSE x \in S : \A y \in S : x <= y

\* faulty variant of validar: the timeframe is not checked
validar_sem_tf(data) ==
    IF DOMAIN data = {}
    THEN [status |-> 400, error |-> <<"No data provided">>]
    ELSE IF Faltantes(data) # {}
    THEN [status |-> 400,
          error |-> <<"Missing required field", required_fields[Min(Faltantes(data))]>>]
    ELSE [status |-> 0]

\* predict, lines 84-102: the 400 response, or [status |-> 0] when the body passes
validar(data) ==
    IF DOMAIN data = {}
    THEN [status |-> 400, error |-> <<"No data provided">>]
    ELSE IF Faltantes(data) # {}
    THEN [status |-> 400,
          error |-> <<"Missing required field", required_fields[Min(Faltantes(data))]>>]
    ELSE IF data.tf \notin {"M15", "M30"}
    THEN [status |-> 400, error |-> <<"Only M15 and M30 timeframes are supported">>]
    ELSE [status |-> 0]

\* predict, lines 115-117: the three float(partial[...]) succeed
ParcialOk(partial) ==
    \A f \in {"abertura", "minima_parcial", "maxima_parcial"} :
        f \in DOMAIN partial /\ FloatOk(partial[f])

\* predict, lines 129-147: the response built from the engine's prediction
montar_resposta(predicao) ==
    [status |-> 200,
     predicted_close |-> predicao.fechamento_predito,
     direction |-> IF predicao.cor_predita = "Verde" THEN "up" ELSE "down",
     phase |-> IF "algoritmo" \in DOMAIN predicao THEN predicao.algoritmo
               ELSE <<"Fibonacci da Amplitude">>,
     strategy |-> IF "algoritmo" \in DOMAIN predicao THEN predicao.algoritmo
                  ELSE <<"Fibonacci da Amplitude">>,
     confidence |-> 8485]

\* the 500 response of the handler's except clause
erro_500 == [status |-> 500, message |-> "Erro ao processar predicao"]

\* the server's globals
Servidor(eng, inicializada) == [engine |-> eng, engine_initialized |-> inicializada]

\* faulty variant of predict: the engine is fed after the prediction is made
predict_alimenta_depois(srv, data, ts) ==
    LET v == validar(data)
        partial == data.partial_current
        p == fazer_predicao(srv.engine, partial.abertura, partial.maxima_parcial,
                            partial.minima_parcial, ts)
        fed == ~srv.engine_initialized
        alim == alimentar_dados(p.eng, data.history)
        eng1 == IF fed THEN alim.eng ELSE p.eng
        ini1 == IF fed /\ alim.res.sucesso THEN TRUE ELSE srv.engine_initialized
    IN  IF v.status # 0
        THEN [srv |-> srv, resp |-> v, fed |-> FALSE, predicted |-> FALSE]
        ELSE IF ~ParcialOk(partial) \/ p.raised
        THEN [srv |-> srv, resp |-> erro_500, fed |-> FALSE, predicted |-> FALSE]
        ELSE [srv |-> Servidor(eng1, ini1), resp |-> montar_resposta(p.res),
              fed |-> fed /\ alim.res.sucesso, predicted |-> TRUE]

\* predict, one request served from start to end: [srv, resp, fed, predicted]
predict(srv, data, ts) ==
    LET v == validar(data)
        alim == alimentar_dados(srv.engine, data.history)
        fed == ~srv.engine_initialized
        eng1 == IF fed THEN alim.eng ELSE srv.engine
        ini1 == IF fed /\ alim.res.sucesso THEN TRUE ELSE srv.engine_initialized
        partial == data.partial_current
        p == fazer_predicao(eng1, partial.abertura, partial.maxima_parcial,
                            partial.minima_parcial, ts)
    IN  IF v.status # 0
        THEN [srv |-> srv, resp |-> v, fed |-> FALSE, predicted |-> FALSE]
        ELSE IF ~ParcialOk(partial)
        THEN [srv |-> Servidor(eng1, ini1), resp |-> erro_500,
              fed |-> fed /\ alim.res.sucesso, predicted |-> FALSE]
        ELSE IF p.raised
        THEN [srv |-> Servidor(eng1, ini1), resp |-> erro_500,
              fed |-> fed /\ alim.res.sucesso, predicted |-> FALSE]
        ELSE [srv |-> Servidor(p.eng, ini1), resp |-> montar_resposta(p.res),
              fed |-> fed /\ alim.res.sucesso, predicted |-> TRUE]

\* faulty variant of reset_engine: engine_initialized is assigned as a local
reset_sem_flag(srv) == Servidor(NewEngine, srv.engine_initialized)

\* reset_engine: the server's globals afterwards
reset_engine(srv) == Servidor(NewEngine, FALSE)

\* health_check: the response
health_check(srv) == [status |-> 200, initialized |-> srv.engine_initialized]

----------------------------------------------------------------------------
(* State machine *)

\* worker threads of the server
Threads == {1, 2}

\* a thread that serves no request
Ocioso == [pc |-> "idle", req |-> 0, fase |-> 0, fed |-> FALSE]

\* no operation yet
Nenhuma == [op |-> "none"]

Init ==
    /\ engine = NewEngine
    /\ engine_initialized = FALSE
    /\ now = 0
    /\ last = Nenhuma
    /\ prev = Nenhuma
    /\ feeds = 0
    /\ thr = [t \in Threads |-> Ocioso]

(* The server, one request at a time *)

\* POST /predict with body Corpos[r], served without interleaving
Predict(r) ==
    LET out == predict(Servidor(engine, engine_initialized), Corpos[r], now)
    IN  /\ now < MaxClock
        /\ engine' = out.srv.engine
        /\ engine_initialized' = out.srv.engine_initialized
        /\ now' = IF out.predicted THEN now + 1 ELSE now
        /\ feeds' = IF out.fed THEN feeds + 1 ELSE feeds
        /\ prev' = last
        /\ last' = [op |-> "predict", req |-> r, resp |-> out.resp, fed |-> out.fed]
        /\ UNCHANGED thr

\* POST /reset
Reset ==
    LET srv == reset_engine(Servidor(engine, engine_initialized))
    IN  /\ engine' = srv.engine
        /\ engine_initialized' = srv.engine_initialized
        /\ feeds' = 0
        /\ prev' = last
        /\ last' = [op |-> "reset", req |-> 0, resp |-> [status |-> 200, success |-> TRUE],
                    fed |-> FALSE]
        /\ UNCHANGED <<now, thr>>

\* GET /health
Health ==
    /\ prev' = last
    /\ last' = [op |-> "health", req |-> 0,
                resp |-> health_check(Servidor(engine, engine_initialized)), fed |-> FALSE]
    /\ UNCHANGED <<engine, engine_initialized, now, feeds, thr>>

Next ==
    \/ \E r \in 1..Len(Corpos) : Predict(r)
    \/ Reset
    \/ Health

Spec == Init /\ [][Next]_vars

(* The engine used as a library, as the comparison scripts use it *)

\* arguments of fazer_predicao: (abertura, maxima, minima)
ArgsPredicao ==
    {<<Num(10), Num(20), Num(0)>>,
     <<Num(4), Num(20), Num(0)>>,
     <<Num(10), Txt, Num(0)>>,
     <<Txt, Num(20), Num(0)>>}

\* arguments of confirmar_resultado
ArgsConfirmar == {Num(0), Num(12), Txt}

\* engine.alimentar_dados(dados)
AlimentarDados(dados) ==
    \E out \in {alimentar_dados(engine, dados)} :
        /\ engine' = out.eng
        /\ last' = [op |-> "alimentar_dados", arg |-> dados, res |-> out.res,
                    raised |-> FALSE]
        /\ UNCHANGED <<engine_initialized, now, feeds, prev, thr>>

\* engine.fazer_predicao(abertura, maxima, minima)
FazerPredicao(args) ==
    LET out == fazer_predicao(engine, args[1], args[2], args[3], now)
    IN  /\ Len(engine.historico_predicoes) < MaxPredicoes
        /\ engine' = out.eng
        /\ now' = Len(out.eng.historico_predicoes)
        /\ last' = [op |-> "fazer_predicao", arg |-> args, res |-> out.res,
                    raised |-> out.raised]
        /\ UNCHANGED <<engine_initialized, feeds, prev, thr>>

\* engine.confirmar_resultado(fechamento_real)
ConfirmarResultado(fechamento_real) ==
    LET out == confirmar_resultado(engine, fechamento_real)
    IN  /\ engine.estatisticas.total_predicoes < MaxConfirmacoes
        /\ engine' = out.eng
        /\ last' = [op |-> "confirmar_resultado", arg |-> fechamento_real,
                    res |-> out.res, raised |-> FALSE]
        /\ UNCHANGED <<engine_initialized, now, feeds, prev, thr>>

\* engine.obter_estatisticas()
ObterEstatisticas ==
    /\ last' = [op |-> "obter_estatisticas", arg |-> 0,
                res |-> obter_estatisticas(engine), raised |-> FALSE]
    /\ UNCHANGED <<engine, engine_initialized, now, feeds, prev, thr>>

NextEngine ==
    \/ \E dados \in Historicos : AlimentarDados(dados)
    \/ \E args \in ArgsPredicao : FazerPredicao(args)
    \/ \E v \in ArgsConfirmar : ConfirmarResultado(v)
    \/ ObterEstatisticas

SpecEngine == Init /\ [][NextEngine]_vars

(* The server with its requests served by concurrent threads.  A request   *)
(* advances one read or write of the shared globals at a time.  /reset is  *)
(* left out of this specification.                                         *)

\* the request thread t serves
CorpoDe(t) == Corpos[thr[t].req]

\* thread t moves to position pc
Vai(t, pc) == thr' = [thr EXCEPT ![t].pc = pc]

\* thread t answers resp and becomes idle
Responde(t, resp) ==
    /\ thr' = [thr EXCEPT ![t] = Ocioso]
    /\ prev' = last
    /\ last' = [op |-> "predict", req |-> thr[t].req, resp |-> resp, fed |-> thr[t].fed]

\* lines 84-102: thread t receives body Corpos[r] and validates it
T_Receive(t, r) ==
    /\ thr[t].pc = "idle"
    /\ now + Cardinality({u \in Threads : thr[u].pc # "idle"}) < MaxPedidos
    /\ IF validar(Corpos[r]).status # 0
       THEN /\ thr' = thr
            /\ prev' = last
            /\ last' = [op |-> "predict", req |-> r, resp |-> validar(Corpos[r]),
                        fed |-> FALSE]
       ELSE /\ thr' = [thr EXCEPT ![t] = [Ocioso EXCEPT !.pc = "check", !.req = r]]
            /\ UNCHANGED <<last, prev>>
    /\ UNCHANGED <<engine, engine_initialized, now, feeds>>

\* line 105: if not engine_initialized
T_Check(t) ==
    /\ thr[t].pc = "check"
    /\ Vai(t, IF engine_initialized THEN "parse" ELSE "detect")
    /\ UNCHANGED <<engine, engine_initialized, now, last, prev, feeds>>

\* line 107, alimentar_dados up to line 174: detectar_fase
T_Detect(t) ==
    LET d == detectar_fase(engine, CorpoDe(t).history)
    IN  /\ thr[t].pc = "detect"
        /\ engine' = d.eng
        /\ feeds' = IF d.raised THEN feeds ELSE feeds + 1
        /\ thr' = [thr EXCEPT ![t].fed = ~d.raised,
                               ![t].pc = IF d.raised THEN "parse"
                                         ELSE IF d.ret = 1 THEN "discover"
                                         ELSE "setinit"]
        /\ UNCHANGED <<engine_initialized, now, last, prev>>

\* alimentar_dados, line 178: descobrir_chave_fase1
T_Discover(t) ==
    /\ thr[t].pc = "discover"
    /\ engine' = descobrir_chave_fase1(engine, CorpoDe(t).history).eng
    /\ Vai(t, "setinit")
    /\ UNCHANGED <<engine_initialized, now, last, prev, feeds>>

\* line 109: engine_initialized = True
T_SetInit(t) ==
    /\ thr[t].pc = "setinit"
    /\ engine_initialized' = TRUE
    /\ Vai(t, "parse")
    /\ UNCHANGED <<engine, now, last, prev, feeds>>

\* lines 115-117: the partial candle's floats
T_Parse(t) ==
    /\ thr[t].pc = "parse"
    /\ IF ParcialOk(CorpoDe(t).partial_current)
       THEN Vai(t, "readfase") /\ UNCHANGED <<last, prev>>
       ELSE Responde(t, erro_500)
    /\ UNCHANGED <<engine, engine_initialized, now, feeds>>

\* fazer_predicao, line 204: the phase is read
T_ReadFase(t) ==
    /\ thr[t].pc = "readfase"
    /\ thr' = [thr EXCEPT ![t].pc = "compute", ![t].fase = fase_lida(engine)]
    /\ UNCHANGED <<engine, engine_initialized, now, last, prev, feeds>>

\* fazer_predicao, lines 207-248, and the response
T_Compute(t) ==
    LET partial == CorpoDe(t).partial_current
        p == fazer_predicao_com(engine, thr[t].fase, partial.abertura,
                                partial.maxima_parcial, partial.minima_parcial, now)
    IN  /\ thr[t].pc = "compute"
        /\ engine' = p.eng
        /\ now' = now + 1
        /\ Responde(t, montar_resposta(p.res))
        /\ UNCHANGED <<engine_initialized, feeds>>

NextConc ==
    \E t \in Threads :
        \/ \E r \in 1..Len(Corpos) : T_Receive(t, r)
        \/ T_Check(t)
        \/ T_Detect(t)
        \/ T_Discover(t)
        \/ T_SetInit(t)
        \/ T_Parse(t)
        \/ T_ReadFase(t)
        \/ T_Compute(t)

SpecConc == Init /\ [][NextConc]_vars

(* descobrir_chave_fase1 called on its own, on histories of two alternating  *)
(* candles                                                                  *)

\* a candle that opens at o and closes above it (verde) or below it
CandleDeCor(o, verde) == Candle(o, o + 2, o - 2, IF verde THEN o + 1 ELSE o - 1)

\* n candles: the odd ones open at o1, the even ones at o2
HistAlternado(o1, verde1, o2, verde2, n) ==
    [i \in 1..n |-> IF i % 2 = 1 THEN CandleDeCor(o1, verde1) ELSE CandleDeCor(o2, verde2)]

\* opens on which the four key functions disagree: 0.6, 1.0, 1.1, 1.6, 2.7
AberturasChave == {6, 10, 11, 16, 27}

\* lengths around the 10-candle threshold
TamanhosChave == {MinCandlesChave - 1, MinCandlesChave, MinCandlesChave + 1}

\* engine.descobrir_chave_fase1(dados)
DescobrirChave(dados) ==
    \E out \in {descobrir_chave_fase1(engine, dados)} :
        /\ engine' = out.eng
        /\ last' = [op |-> "descobrir_chave_fase1", arg |-> dados, res |-> out.ret,
                    raised |-> FALSE]
        /\ UNCHANGED <<engine_initialized, now, feeds, prev, thr>>

\* 10 candles of which only the first k are whole: the others have no
\* fechamento, so that k - 1 pairs of the backtest are usable
HistTruncado(o1, verde1, o2, verde2, k) ==
    [i \in 1..MinCandlesChave |->
        IF i <= k THEN HistAlternado(o1, verde1, o2, verde2, MinCandlesChave)[i]
        ELSE [abertura |-> Num(o1), maxima |-> Num(o1 + 2), minima |-> Num(o1 - 2)]]

\* whole candles that leave 4 and 5 usable pairs
CandlesInteiros == {MinCandlesTeste, MinCandlesTeste + 1}

NextChave ==
    \/ \E o1 \in AberturasChave, o2 \in AberturasChave, v1 \in BOOLEAN, v2 \in BOOLEAN,
          n \in TamanhosChave :
           DescobrirChave(HistAlternado(o1, v1, o2, v2, n))
    \/ \E o1 \in AberturasChave, o2 \in AberturasChave, v \in BOOLEAN,
          k \in CandlesInteiros :
           DescobrirChave(HistTruncado(o1, v, o2, v, k))

SpecChave == Init /\ [][NextChave]_vars

(* The formulas called on their own, and fazer_predicao on partial candles   *)
(* whose prices have four decimals                                           *)

\* prices of the formula calls, in tenths: 0, 4, 10, 15, 20
PrecosFormula == {0, 40, 100, 150, 200}

\* keys handed to predizer_fase1: the four of the table, None and two strangers
ChavesPedidas ==
    {ChavesFase1[i] : i \in 1..Len(ChavesFase1)}
        \cup {NoChave, "first_digit_parity", "sum_last_2"}

\* prices of the four-decimal partial candles, in 1e-4 units: 0.9000 .. 0.9003
PrecosFinos == {9000, 9001, 9002, 9003}

\* what the engine is fed before a four-decimal prediction: nothing (the phase
\* defaults to 2) or a short Phase-1 history
HistoricosFinos == {<<>>, HistCurtoFase1}

\* engine = PredictionEngine();
\* engine.algoritmo_fibonacci_amplitude(abertura, maxima, minima)
AlgoritmoFibonacci(abertura, maxima, minima) ==
    /\ engine' = NewEngine
    /\ last' = [op |-> "algoritmo_fibonacci_amplitude",
                arg |-> <<abertura, maxima, minima>>,
                res |-> algoritmo_fibonacci_amplitude(abertura, maxima, minima),
                raised |-> FALSE]
    /\ UNCHANGED <<engine_initialized, now, feeds, prev, thr>>

\* engine = PredictionEngine();
\* engine.predizer_fase1(abertura, maxima, minima, chave)
PredizerFase1(abertura, maxima, minima, chave) ==
    /\ engine' = NewEngine
    /\ last' = [op |-> "predizer_fase1",
                arg |-> <<abertura, maxima, minima, chave>>,
                res |-> predizer_fase1(abertura, maxima, minima, chave),
                raised |-> FALSE]
    /\ UNCHANGED <<engine_initialized, now, feeds, prev, thr>>

\* engine = PredictionEngine(); engine.alimentar_dados(dados) unless dados is
\* empty; engine.fazer_predicao(abertura, maxima, minima) on four-decimal
\* prices; the response the server builds from the result
PredicaoFina(dados, abertura, maxima, minima) ==
    LET eng0 == IF dados = <<>> THEN NewEngine ELSE alimentar_dados(NewEngine, dados).eng
        out == fazer_predicao_escala(eng0, fase_lida(eng0), Num(abertura), Num(maxima),
                                     Num(minima), now, 1)
    IN  /\ engine' = out.eng
        /\ last' = [op |-> "fazer_predicao",
                    arg |-> <<abertura, maxima, minima>>,
                    res |-> out.res,
                    raised |-> out.raised,
                    resp |-> montar_resposta(out.res)]
        /\ UNCHANGED <<engine_initialized, now, feeds, prev, thr>>

NextFormulas ==
    \/ \E a \in PrecosFormula, mx \in PrecosFormula, mn \in PrecosFormula :
            AlgoritmoFibonacci(a, mx, mn)
    \/ \E a \in PrecosFormula, mx \in PrecosFormula, mn \in PrecosFormula,
          chave \in ChavesPedidas :
            PredizerFase1(a, mx, mn, chave)
    \/ \E dados \in HistoricosFinos, a \in PrecosFinos, mx \in PrecosFinos,
          mn \in PrecosFinos :
            PredicaoFina(dados, a, mx, mn)

SpecFormulas == Init /\ [][NextFormulas]_vars

----------------------------------------------------------------------------
(* AmplitudePredictor (server/prediction/amplitude_predictor.py)             *)
(*                                                                           *)
(* Numbers.  A float is held as the exact rational it stands for, a record   *)
(* [n, d] with d > 0 in lowest terms; the binary rounding error of Python    *)
(* floats is not modelled.  A JSON number Num(n) of the input is a price of  *)
(* n hundredths or, for elapsed_minutes, a time of n quarters of a minute.   *)
(* round(x, k) yields an integer number of 10^-k units.                      *)

RECURSIVE MDC(_, _)
\* the greatest common divisor of a >= 0 and b >= 0
MDC(a, b) == IF b = 0 THEN a ELSE MDC(b, a % b)

\* the float n / d, d > 0
R(n, d) == LET g == MDC(Abs(n), d) IN [n |-> n \div g, d |-> d \div g]

\* float arithmetic and comparison
RAdd(a, b) == R(a.n * b.d + b.n * a.d, a.d * b.d)

RSub(a, b) == R(a.n * b.d - b.n * a.d, a.d * b.d)

RMul(a, b) == R(a.n * b.n, a.d * b.d)

\* a / b, b # 0
RDiv(a, b) ==
    IF b.n > 0 THEN R(a.n * b.d, a.d * b.n) ELSE R(-(a.n * b.d), -(a.d * b.n))

RLt(a, b) == a.n * b.d < b.n * a.d

RLe(a, b) == a.n * b.d <= b.n * a.d

RAbs(a) == [n |-> Abs(a.n), d |-> a.d]

RMin(a, b) == IF RLt(b, a) THEN b ELSE a

RMax(a, b) == IF RLt(a, b) THEN b ELSE a

\* x / y raises ZeroDivisionError
DivisaoPorZero(y) == y.n = 0

RECURSIVE Escalar(_, _, _)
\* r * 10^k / d for 0 <= r < d, digit by digit: [q, r] with r * 10^k = q * d + r'
Escalar(r, d, k) ==
    IF k = 0 THEN [q |-> 0, r |-> r]
    ELSE LET p == Escalar(r, d, k - 1)
         IN  [q |-> p.q * 10 + (p.r * 10) \div d, r |-> (p.r * 10) % d]

RECURSIVE Pot10(_)
Pot10(k) == IF k = 0 THEN 1 ELSE 10 * Pot10(k - 1)

\* round(x, k) in 10^-k units, ties to the even one
RoundDec(x, k) ==
    LET e == Escalar(x.n % x.d, x.d, k)
        q == (x.n \div x.d) * Pot10(k) + e.q
    IN  IF 2 * e.r < x.d THEN q
        ELSE IF 2 * e.r > x.d THEN q + 1
        ELSE IF q % 2 = 0 THEN q ELSE q + 1

\* a price given in hundredths, a time given in quarters of a minute
Preco(c) == R(c, 100)

Minutos(q) == R(q, 4)

\* percentiles = [10, 25, 50, 75, 90, 95]
percentiles == {10, 25, 50, 75, 90, 95}

\* faulty variant of _percentile: the order statistic below the index, with
\* no interpolation
_percentile_inferior(data, percentile) ==
    LET sorted_data == SortSeq(data, LAMBDA a, b : RLt(a, b))
        index == R(percentile * (Len(sorted_data) - 1), 100)
    IN  sorted_data[(index.n \div index.d) + 1]

\* _percentile(data, percentile): linear interpolation at index
\* percentile / 100 * (n - 1) of the sorted data
_percentile(data, percentile) ==
    LET sorted_data == SortSeq(data, LAMBDA a, b : RLt(a, b))
        index == R(percentile * (Len(sorted_data) - 1), 100)
        lower == index.n \div index.d
        upper == IF index.n % index.d = 0 THEN lower ELSE lower + 1
    IN  IF lower = upper
        THEN sorted_data[lower + 1]
        ELSE RAdd(RMul(sorted_data[lower + 1], RSub(R(upper, 1), index)),
                  RMul(sorted_data[upper + 1], RSub(index, R(lower, 1))))

RECURSIVE SomaR(_, _)
\* the sum of the first i elements of a list of floats
SomaR(s, i) == IF i = 0 THEN R(0, 1) ELSE RAdd(SomaR(s, i - 1), s[i])

\* c['maxima'] - c['minima'] raises for some candle: a key is missing
CandleSemChave(historical_candles) ==
    \E i \in 1..Len(historical_candles) :
        ~({"maxima", "minima"} \subseteq DOMAIN historical_candles[i])

\* _calculate_statistics, lines 30-34: the amplitudes above zero, in list order
amplitudes_de(historical_candles) ==
    LET amp(c) == Preco(c.maxima.n - c.minima.n)
        todas == [i \in 1..Len(historical_candles) |-> amp(historical_candles[i])]
    IN  SelectSeq(todas, LAMBDA a : a.n > 0)

\* AmplitudePredictor.__init__ and _calculate_statistics: the predictor's
\* mean_amplitude and amplitude_percentiles (std_amplitude is never read)
AmplitudePredictor(historical_candles) ==
    LET amplitudes == amplitudes_de(historical_candles)
    IN  IF historical_candles = <<>> \/ amplitudes = <<>>
        THEN [mean_amplitude |-> R(0, 1), amplitude_percentiles |-> <<>>]
        ELSE [mean_amplitude |->
                  RDiv(SomaR(amplitudes, Len(amplitudes)), R(Len(amplitudes), 1)),
              amplitude_percentiles |->
                  [p \in percentiles |-> _percentile(amplitudes, p)]]

\* the float 0.0
Zero == R(0, 1)

\* x / y if y > 0 else z: the value, and whether the division raised
DivSe(x, y, z) ==
    IF RLt(Zero, y)
    THEN [v |-> IF DivisaoPorZero(y) THEN z ELSE RDiv(x, y), erro |-> DivisaoPorZero(y)]
    ELSE [v |-> z, erro |-> FALSE]

\* faulty variant of current_amplitude: a zero amplitude is left as it is
current_amplitude_sem_piso(current_high, current_low) == RSub(current_high, current_low)

\* predict_final_amplitude, lines 82-85: the amplitude, 0.01 in place of zero
current_amplitude(current_high, current_low) ==
    LET amp == RSub(current_high, current_low)
    IN  IF amp.n = 0 THEN R(1, 100) ELSE amp

\* time_ratio = elapsed_minutes / 15.0
time_ratio(elapsed_minutes) == RDiv(elapsed_minutes, R(15, 1))

\* predict_final_amplitude, lines 91-98: growth_factor
growth_factor(elapsed_minutes) ==
    LET t == time_ratio(elapsed_minutes)
    IN  IF RLt(t, R(33, 100)) THEN R(18, 10)
        ELSE IF RLt(t, R(67, 100)) THEN R(14, 10)
        ELSE IF RLt(t, R(83, 100)) THEN R(12, 10)
        ELSE R(115, 100)

\* predict_final_amplitude, line 100
predicted_amplitude_linear(amp, elapsed_minutes) == RMul(amp, growth_factor(elapsed_minutes))

\* faulty variant of predicted_amplitude_mean: with a mean of 0 the estimate is
\* the mean itself
predicted_amplitude_mean_sem_linear(self, amp, elapsed_minutes) ==
    IF RLt(Zero, self.mean_amplitude)
    THEN LET amplitude_ratio == RDiv(amp, self.mean_amplitude)
         IN  IF RLt(R(15, 10), amplitude_ratio) THEN RMul(amp, R(105, 100))
             ELSE IF RLt(amplitude_ratio, R(5, 10)) THEN RMul(self.mean_amplitude, R(8, 10))
             ELSE self.mean_amplitude
    ELSE self.mean_amplitude

\* predict_final_amplitude, lines 103-113
predicted_amplitude_mean(self, amp, elapsed_minutes) ==
    IF RLt(Zero, self.mean_amplitude)
    THEN LET amplitude_ratio == RDiv(amp, self.mean_amplitude)
         IN  IF RLt(R(15, 10), amplitude_ratio) THEN RMul(amp, R(105, 100))
             ELSE IF RLt(amplitude_ratio, R(5, 10)) THEN RMul(self.mean_amplitude, R(8, 10))
             ELSE self.mean_amplitude
    ELSE predicted_amplitude_linear(amp, elapsed_minutes)

\* predict_final_amplitude, lines 122-127
predicted_amplitude_from_close(amp, predicted_close, current_high, current_low) ==
    IF RLt(current_high, predicted_close)
    THEN RMul(RSub(predicted_close, current_low), R(11, 10))
    ELSE IF RLt(predicted_close, current_low)
    THEN RMul(RSub(current_high, predicted_close), R(11, 10))
    ELSE RMul(amp, R(105, 100))

\* predict_final_amplitude, lines 130-135: the weighted sum of the three methods
predicted_amplitude(self, amp, elapsed_minutes, predicted_close, current_high, current_low) ==
    RAdd(RAdd(RMul(R(3, 10), predicted_amplitude_linear(amp, elapsed_minutes)),
              RMul(R(3, 10), predicted_amplitude_mean(self, amp, elapsed_minutes))),
         RMul(R(4, 10),
              predicted_amplitude_from_close(amp, predicted_close, current_high,
                                             current_low)))

\* faulty variant of confidence: no cap at 95
confidence_sem_teto(elapsed_minutes) ==
    RAdd(R(40, 1), RMul(time_ratio(elapsed_minutes), R(60, 1)))

\* predict_final_amplitude, line 138: min(95, 40 + (time_ratio * 60))
confidence(elapsed_minutes) ==
    RMin(R(95, 1), RAdd(R(40, 1), RMul(time_ratio(elapsed_minutes), R(60, 1))))

\* price_position, lines 153 and 206-209, and predicted_price_position, line 157:
\* (x - current_low) / current_amplitude if current_amplitude > 0 else 0.5
posicao_no_range(x, current_low, amp) == DivSe(RSub(x, current_low), amp, R(1, 2))

\* growth_potential, lines 180 and 202:
\* (predicted_amplitude - current_amplitude) / current_amplitude if
\* current_amplitude > 0 else 0
growth_potential(amp, pred_amp) == DivSe(RSub(pred_amp, amp), amp, Zero)

\* _calculate_expansion_probability, line 203: min(1.0, max(0, growth_potential))
growth_factor_expansao(amp, pred_amp) ==
    RMin(R(1, 1), RMax(Zero, growth_potential(amp, pred_amp).v))

\* _calculate_expansion_probability, line 211: 1 - abs(price_position - 0.5) * 2
position_factor(amp, current_price, current_low) ==
    RSub(R(1, 1),
         RMul(RAbs(RSub(posicao_no_range(current_price, current_low, amp).v, R(1, 2))),
              R(2, 1)))

\* _calculate_expansion_probability, lines 214-220
time_factor(elapsed_minutes) ==
    LET t == time_ratio(elapsed_minutes)
    IN  IF RLt(R(83, 100), t) THEN R(85, 100)
        ELSE IF RLt(R(67, 100), t) THEN R(65, 100)
        ELSE R(45, 100)

\* _calculate_expansion_probability, lines 224-227
prediction_factor(predicted_close, current_high, current_low) ==
    IF RLt(current_high, predicted_close) \/ RLt(predicted_close, current_low)
    THEN R(9, 10)
    ELSE R(5, 10)

\* _calculate_expansion_probability, lines 230-235: the sum before the clamp
expansion_prob(amp, pred_amp, elapsed_minutes, current_price, current_high, current_low, predicted_close) ==
    RAdd(RAdd(RMul(growth_factor_expansao(amp, pred_amp), R(25, 100)),
              RMul(position_factor(amp, current_price, current_low), R(20, 100))),
         RAdd(RMul(time_factor(elapsed_minutes), R(30, 100)),
              RMul(prediction_factor(predicted_close, current_high, current_low),
                   R(25, 100))))

\* _calculate_expansion_probability (predicted_direction is not read)
_calculate_expansion_probability(amp, pred_amp, elapsed_minutes, current_price, current_high, current_low, predicted_close) ==
    RMax(Zero, RMin(R(1, 1), expansion_prob(amp, pred_amp, elapsed_minutes, current_price,
                                            current_high, current_low, predicted_close)))

\* sorted(self.amplitude_percentiles.keys(), reverse=True)
ChavesDescendentes == <<95, 90, 75, 50, 25, 10>>

RECURSIVE PrimeiroPercentil(_, _, _)
\* _get_percentile_position, lines 244-247: the scan from the i-th key on
PrimeiroPercentil(self, amplitude, i) ==
    IF i > Len(ChavesDescendentes) THEN 10
    ELSE IF RLe(self.amplitude_percentiles[ChavesDescendentes[i]], amplitude)
    THEN ChavesDescendentes[i]
    ELSE PrimeiroPercentil(self, amplitude, i + 1)

\* _get_percentile_position
_get_percentile_position(self, amplitude) ==
    IF DOMAIN self.amplitude_percentiles = {} THEN 50
    ELSE PrimeiroPercentil(self, amplitude, 1)

\* _analyze_movement_expectation, lines 316-318: distance_ratio, on the
\* amplitude recomputed from current_high and current_low
distance_ratio(current_price, current_high, current_low, predicted_close) ==
    DivSe(RAbs(RSub(predicted_close, current_price)), RSub(current_high, current_low), Zero)

\* _analyze_movement_expectation, lines 321-325
will_pullback(price_position, predicted_price_position) ==
    \/ RLt(R(75, 100), price_position) /\ RLt(predicted_price_position, R(6, 10))
    \/ RLt(price_position, R(25, 100)) /\ RLt(R(4, 10), predicted_price_position)

\* _analyze_movement_expectation, lines 328-330
will_gain_strength(expansion_probability, dist) ==
    RLt(R(7, 10), expansion_probability) /\ RLt(R(3, 10), dist)

\* _analyze_movement_expectation, lines 333-335
will_consolidate(expansion_probability, dist) ==
    RLt(expansion_probability, R(4, 10)) /\ RLt(dist, R(2, 10))

\* _analyze_movement_expectation, lines 338-342
will_reverse_color(current_price, current_high, current_low, predicted_direction, expansion_probability) ==
    LET current_color ==
            IF RLt(RDiv(RAdd(current_high, current_low), R(2, 1)), current_price)
            THEN "green" ELSE "red"
        predicted_color == IF predicted_direction = "compra" THEN "green" ELSE "red"
    IN  current_color # predicted_color /\ RLt(R(6, 10), expansion_probability)

\* faulty variant of Expectativa: GAIN_STRENGTH is tried before PULLBACK
ExpectativaForcaPrimeiro(pullback, gain_strength, consolidate, reverse_color) ==
    IF gain_strength THEN [expectation |-> "GAIN_STRENGTH", confidence |-> 80]
    ELSE IF pullback THEN [expectation |-> "PULLBACK", confidence |-> 75]
    ELSE IF consolidate THEN [expectation |-> "CONSOLIDATE", confidence |-> 70]
    ELSE IF reverse_color THEN [expectation |-> "REVERSE_COLOR", confidence |-> 65]
    ELSE [expectation |-> "NEUTRAL", confidence |-> 50]

\* _analyze_movement_expectation, lines 345-359: the expectation and its
\* confidence in hundredths
Expectativa(pullback, gain_strength, consolidate, reverse_color) ==
    IF pullback THEN [expectation |-> "PULLBACK", confidence |-> 75]
    ELSE IF gain_strength THEN [expectation |-> "GAIN_STRENGTH", confidence |-> 80]
    ELSE IF consolidate THEN [expectation |-> "CONSOLIDATE", confidence |-> 70]
    ELSE IF reverse_color THEN [expectation |-> "REVERSE_COLOR", confidence |-> 65]
    ELSE [expectation |-> "NEUTRAL", confidence |-> 50]

\* _analyze_movement_expectation
_analyze_movement_expectation(current_price, current_high, current_low, predicted_close, predicted_direction, price_position, predicted_price_position, expansion_probability) ==
    LET dist == distance_ratio(current_price, current_high, current_low, predicted_close).v
        pullback == will_pullback(price_position, predicted_price_position)
        gain_strength == will_gain_strength(expansion_probability, dist)
        consolidate == will_consolidate(expansion_probability, dist)
        reverse_color == will_reverse_color(current_price, current_high, current_low,
                                            predicted_direction, expansion_probability)
        e == Expectativa(pullback, gain_strength, consolidate, reverse_color)
    IN  [expectation |-> e.expectation,
         confidence |-> e.confidence,
         will_pullback |-> pullback,
         will_gain_strength |-> gain_strength,
         will_consolidate |-> consolidate,
         will_reverse_color |-> reverse_color]

\* faulty variant of _determine_entry_strategy: HIGH_CONFIDENCE does not look at
\* the elapsed time
_determine_entry_strategy_sem_tempo(predicted_direction, movement_analysis, expansion_probability, price_position, elapsed_minutes) ==
    LET expectation == movement_analysis.expectation
        movement_confidence == movement_analysis.confidence
    IN  IF /\ expectation = "GAIN_STRENGTH"
           /\ RLt(R(75, 100), expansion_probability)
           /\ movement_confidence > 75
        THEN [strategy |-> "HIGH_CONFIDENCE", confidence_modifier |-> 25,
              stake_type |-> "HIGH", risk_level |-> "MEDIUM"]
        ELSE IF expectation = "PULLBACK" \/ expectation = "REVERSE_COLOR"
        THEN [strategy |-> "DEFENSE", confidence_modifier |-> -20,
              stake_type |-> "LOW", risk_level |-> "HIGH"]
        ELSE IF expectation = "CONSOLIDATE"
        THEN [strategy |-> "WAIT", confidence_modifier |-> -30,
              stake_type |-> "NONE", risk_level |-> "HIGH"]
        ELSE IF RLt(R(5, 10), expansion_probability) /\ RLt(expansion_probability, R(75, 100))
        THEN [strategy |-> "HEDGE", confidence_modifier |-> 0,
              stake_type |-> "NORMAL", risk_level |-> "MEDIUM"]
        ELSE [strategy |-> "NEUTRAL", confidence_modifier |-> 0,
              stake_type |-> "NORMAL", risk_level |-> "MEDIUM"]

\* _determine_entry_strategy (the reason text is left out)
_determine_entry_strategy(predicted_direction, movement_analysis, expansion_probability, price_position, elapsed_minutes) ==
    LET expectation == movement_analysis.expectation
        movement_confidence == movement_analysis.confidence
    IN  IF /\ expectation = "GAIN_STRENGTH"
           /\ RLt(R(75, 100), expansion_probability)
           /\ movement_confidence > 75
           /\ RLt(R(125, 10), elapsed_minutes)
        THEN [strategy |-> "HIGH_CONFIDENCE", confidence_modifier |-> 25,
              stake_type |-> "HIGH", risk_level |-> "MEDIUM"]
        ELSE IF expectation = "PULLBACK" \/ expectation = "REVERSE_COLOR"
        THEN [strategy |-> "DEFENSE", confidence_modifier |-> -20,
              stake_type |-> "LOW", risk_level |-> "HIGH"]
        ELSE IF expectation = "CONSOLIDATE"
        THEN [strategy |-> "WAIT", confidence_modifier |-> -30,
              stake_type |-> "NONE", risk_level |-> "HIGH"]
        ELSE IF RLt(R(5, 10), expansion_probability) /\ RLt(expansion_probability, R(75, 100))
        THEN [strategy |-> "HEDGE", confidence_modifier |-> 0,
              stake_type |-> "NORMAL", risk_level |-> "MEDIUM"]
        ELSE [strategy |-> "NEUTRAL", confidence_modifier |-> 0,
              stake_type |-> "NORMAL", risk_level |-> "MEDIUM"]

\* _generate_strategic_recommendation
_generate_strategic_recommendation(current_price, current_high, current_low, predicted_close, predicted_direction, expansion_probability, elapsed_minutes, price_position, predicted_price_position) ==
    LET movement_analysis ==
            _analyze_movement_expectation(current_price, current_high, current_low,
                                          predicted_close, predicted_direction,
                                          price_position, predicted_price_position,
                                          expansion_probability)
        entry_strategy ==
            _determine_entry_strategy(predicted_direction, movement_analysis,
                                      expansion_probability, price_position,
                                      elapsed_minutes)
    IN  [movement_expectation |-> movement_analysis.expectation,
         movement_confidence |-> movement_analysis.confidence,
         will_pullback |-> movement_analysis.will_pullback,
         will_gain_strength |-> movement_analysis.will_gain_strength,
         will_consolidate |-> movement_analysis.will_consolidate,
         will_reverse_color |-> movement_analysis.will_reverse_color,
         entry_strategy |-> entry_strategy.strategy,
         confidence_modifier |-> entry_strategy.confidence_modifier,
         suggested_stake_type |-> entry_strategy.stake_type,
         risk_level |-> entry_strategy.risk_level]

\* predict_final_amplitude: [res, raised]; the rounded fields are integers in
\* 1e-4 units, confidence in 1e-2 units
predict_final_amplitude(self, current_high, current_low, current_price, elapsed_minutes, predicted_close, predicted_direction) ==
    LET amp == current_amplitude(current_high, current_low)
        pred_amp == predicted_amplitude(self, amp, elapsed_minutes, predicted_close,
                                        current_high, current_low)
        expansion_probability ==
            _calculate_expansion_probability(amp, pred_amp, elapsed_minutes, current_price,
                                             current_high, current_low, predicted_close)
        price_position == posicao_no_range(current_price, current_low, amp)
        predicted_price_position == posicao_no_range(predicted_close, current_low, amp)
        potential == growth_potential(amp, pred_amp)
        recommendation ==
            _generate_strategic_recommendation(current_price, current_high, current_low,
                                               predicted_close, predicted_direction,
                                               expansion_probability, elapsed_minutes,
                                               price_position.v,
                                               predicted_price_position.v)
    IN  [raised |->
             \/ price_position.erro
             \/ predicted_price_position.erro
             \/ potential.erro
             \/ distance_ratio(current_price, current_high, current_low,
                               predicted_close).erro,
         res |->
             [predicted_amplitude |-> RoundDec(pred_amp, 4),
              current_amplitude |-> RoundDec(amp, 4),
              confidence |-> RoundDec(confidence(elapsed_minutes), 2),
              expansion_probability |-> RoundDec(expansion_probability, 4),
              will_expand |-> RLt(R(6, 10), expansion_probability),
              growth_potential |-> RoundDec(potential.v, 4),
              price_position |-> RoundDec(price_position.v, 4),
              price_position_label |->
                  IF RLt(R(7, 10), price_position.v) THEN "TOP"
                  ELSE IF RLt(price_position.v, R(3, 10)) THEN "BOTTOM"
                  ELSE "MIDDLE",
              predicted_price_position |-> RoundDec(predicted_price_position.v, 4),
              percentile_position |-> _get_percentile_position(self, pred_amp),
              recommendation |-> recommendation]]

\* main, lines 441-447: input_data.get(campo, default)
Obter(input_data, campo, default) ==
    IF campo \in DOMAIN input_data THEN input_data[campo] ELSE default

\* main, lines 442-446: the five fields read with float()
CamposFloat ==
    {"current_high", "current_low", "current_price", "elapsed_minutes", "predicted_close"}

\* main, lines 441-447: the arguments of the prediction, as floats
Entrada(input_data) ==
    [predicted_close |-> Preco(FloatVal(Obter(input_data, "predicted_close", Num(0)))),
     historical_candles |-> Obter(input_data, "historical_candles", <<>>),
     current_high |-> Preco(FloatVal(Obter(input_data, "current_high", Num(0)))),
     current_low |-> Preco(FloatVal(Obter(input_data, "current_low", Num(0)))),
     elapsed_minutes |-> Minutos(FloatVal(Obter(input_data, "elapsed_minutes", Num(0)))),
     current_price |-> Preco(FloatVal(Obter(input_data, "current_price", Num(0)))),
     predicted_direction |-> Obter(input_data, "predicted_direction", "compra")]

\* main, lines 466-475: what is printed when an exception is caught
error_result(e) ==
    [error |-> e, recommendation |-> [strategy |-> "NEUTRAL", confidence_modifier |-> 0]]

\* main: what the process prints and its exit status
main(input_data) ==
    LET a == Entrada(input_data)
        predictor == AmplitudePredictor(a.historical_candles)
        result == predict_final_amplitude(predictor, a.current_high, a.current_low,
                                          a.current_price, a.elapsed_minutes,
                                          a.predicted_close, a.predicted_direction)
    IN  IF \E f \in CamposFloat : ~FloatOk(Obter(input_data, f, Num(0)))
        THEN [out |-> error_result("float"), exit |-> 1]
        ELSE IF CandleSemChave(a.historical_candles)
        THEN [out |-> error_result("KeyError"), exit |-> 1]
        ELSE IF result.raised
        THEN [out |-> error_result("ZeroDivisionError"), exit |-> 1]
        ELSE [out |-> result.res, exit |-> 0]

(* Inputs of the amplitude predictor *)

\* no history; two flat candles (no amplitude above zero); one candle of
\* amplitude 0.06; amplitudes 0.03, 0.01, 0.05, 0, 0.02, 0.04; amplitudes 1, 2, 3
HistAmpVazio == <<>>

HistAmpPlano == <<Candle(100, 100, 100, 100), Candle(102, 102, 102, 102)>>

HistAmpUm == <<Candle(100, 104, 98, 101)>>

HistAmpCinco ==
    <<Candle(100, 102, 99, 101), Candle(100, 101, 100, 100), Candle(100, 103, 98, 99),
      Candle(100, 100, 100, 100), Candle(100, 101, 99, 100), Candle(100, 103, 99, 102)>>

HistAmpLargo == <<Candle(100, 200, 100, 150), Candle(100, 300, 100, 150),
                  Candle(100, 400, 100, 150)>>

HistoricosAmp == {HistAmpVazio, HistAmpPlano, HistAmpUm, HistAmpCinco, HistAmpLargo}

\* a history whose second candle has no 'maxima'
HistAmpSemMaxima ==
    <<Candle(100, 104, 98, 101), [abertura |-> Num(100), minima |-> Num(99)]>>

\* (current_high, current_low) in hundredths: amplitude 0, 0.04, 0.10
FaixasAtuais == {<<100, 100>>, <<104, 100>>, <<110, 100>>}

\* current_price in hundredths, inside and outside the range
PrecosAtuais == {96, 101, 103, 105, 108, 114}

\* predicted_close in hundredths, inside and outside the range
FechamentosPreditos == {80, 98, 100, 104, 110, 125}

\* elapsed_minutes in quarters of a minute: 0, 5, 10.25, 12.5, 13, 15
TemposDecorridos == {0, 20, 41, 50, 52, 60}

Direcoes == {"compra", "venda"}

\* the JSON object read from stdin
DadosDeEntrada(faixa, preco, fechamento, tempo, direcao, historico) ==
    [predicted_close |-> Num(fechamento),
     historical_candles |-> historico,
     current_high |-> Num(faixa[1]),
     current_low |-> Num(faixa[2]),
     elapsed_minutes |-> Num(tempo),
     current_price |-> Num(preco),
     predicted_direction |-> direcao]

\* the inputs: every combination above, an empty object, an object whose
\* current_high is a string, an object whose history lacks a key
EntradasAmp ==
    {DadosDeEntrada(faixa, preco, fechamento, tempo, direcao, historico) :
         faixa \in FaixasAtuais, preco \in PrecosAtuais,
         fechamento \in FechamentosPreditos, tempo \in TemposDecorridos,
         direcao \in Direcoes, historico \in HistoricosAmp}
    \cup {<<>>,
          [DadosDeEntrada(<<104, 100>>, 101, 102, 20, "compra", HistAmpUm)
               EXCEPT !.current_high = Txt],
          DadosDeEntrada(<<104, 100>>, 101, 102, 20, "compra", HistAmpSemMaxima)}

(* The amplitude predictor: a process that reads one JSON object, prints one *)
(* and exits                                                                 *)

\* python amplitude_predictor.py < input_data
Main(input_data) ==
    LET r == main(input_data)
    IN  /\ last = Nenhuma
        /\ last' = [op |-> "main", out |-> r.out, arg |-> input_data, exit |-> r.exit]
        /\ UNCHANGED <<engine, engine_initialized, now, feeds, prev, thr>>

NextAmplitude == \E input_data \in EntradasAmp : Main(input_data)

SpecAmplitude == Init /\ [][NextAmplitude]_vars

----------------------------------------------------------------------------
(* Properties *)

\* a result of fazer_predicao without its timestamp
SemTimestamp(res) == [f \in DOMAIN res \ {"timestamp"} |-> res[f]]

\* a new engine that holds only the PhaseState of eng
SoPhaseState(eng) ==
    [NewEngine EXCEPT !.fase_detectada = eng.fase_detectada,
                      !.chave_ativa_fase1 = eng.chave_ativa_fase1]

\* the server before its first request
ServidorNovo == Servidor(NewEngine, FALSE)

\* C1: whatever fazer_predicao and confirmar_resultado calls came before, the
\* result of fazer_predicao (predicted close, colour, position, phase used,
\* algorithm label, or the error it reports) is the one an engine with the
\* same PhaseState, an empty ledger and zeroed counters gives for the same
\* arguments.
C1_Determinismo ==
    last.op = "fazer_predicao" =>
        LET ref == fazer_predicao(SoPhaseState(engine), last.arg[1], last.arg[2],
                                  last.arg[3], 0)
        IN  /\ last.raised = ref.raised
            /\ SemTimestamp(last.res) = SemTimestamp(ref.res)

\* a prediction made on a ledger that already holds one, after a confirmation
\* was counted
C1_Witness ==
    /\ last.op = "fazer_predicao"
    /\ ~last.raised
    /\ "fase_usada" \in DOMAIN last.res
    /\ Len(engine.historico_predicoes) >= 2
    /\ engine.estatisticas.total_predicoes >= 1

\* C2: the response to every /predict request is the response a server that
\* has served nothing before gives to the same body (stated as the claim has
\* it; the shared engine refutes it).
C2_Isolamento ==
    last.op = "predict" => last.resp = predict(ServidorNovo, Corpos[last.req], 0).resp

\* C3: of two consecutive /predict requests with the same body, the second
\* gets the response of the first, whether or not the first fed the engine.
C3_PedidosIdenticos ==
    (prev.op = "predict" /\ last.op = "predict" /\ prev.req = last.req)
        => last.resp = prev.resp

\* the third of three identical requests in a row, the first of which fed the
\* engine with a Phase-1 history, answered with a prediction
C3_Witness ==
    /\ prev.op = "predict" /\ last.op = "predict" /\ prev.req = last.req
    /\ last.req = 2
    /\ ~prev.fed /\ ~last.fed
    /\ feeds = 1
    /\ last.resp.status = 200
    /\ Len(engine.historico_predicoes) = 3
    /\ \A i \in 1..3 : engine.historico_predicoes[i].fase_usada = 1

\* C4: once the engine holds a phase it is never given another one (stated as
\* the claim has it, for the server without /reset; two requests that both
\* pass the engine_initialized test refute it).
C4_EscritaUnica ==
    [][engine.fase_detectada # NoFase
         => engine'.fase_detectada = engine.fase_detectada]_vars

\* C5: right after /reset the phase and the key are unset, the ledger is
\* empty, the counters are zero and the flag is false; the /predict that
\* follows a /reset is answered, and leaves the PhaseState and the flag, as on
\* a server that has served nothing before.
C5_Reset ==
    /\ last.op = "reset" =>
          /\ engine.fase_detectada = NoFase
          /\ engine.chave_ativa_fase1 = NoChave
          /\ engine.historico_predicoes = <<>>
          /\ engine.estatisticas.total_predicoes = 0
          /\ engine.estatisticas.acertos = 0
          /\ engine_initialized = FALSE
    /\ (prev.op = "reset" /\ last.op = "predict") =>
          LET ref == predict(ServidorNovo, Corpos[last.req], 0)
          IN  /\ last.resp = ref.resp
              /\ last.fed = ref.fed
              /\ engine.fase_detectada = ref.srv.engine.fase_detectada
              /\ engine.chave_ativa_fase1 = ref.srv.engine.chave_ativa_fase1
              /\ engine_initialized = ref.srv.engine_initialized

\* a /predict with a Phase-1 history right after a /reset that followed a
\* Phase-2 prediction: the phase is derived again
C5_Witness ==
    /\ prev.op = "reset" /\ last.op = "predict"
    /\ last.fed
    /\ now >= 2
    /\ engine.fase_detectada = 1
    /\ Len(engine.historico_predicoes) = 1
    /\ engine.historico_predicoes[1].fase_usada = 1

\* the fields a /predict body must carry
CamposExigidos == {"symbol", "tf", "history", "partial_current"}

\* the first of them, in the order symbol, tf, history, partial_current, that
\* data lacks (when it lacks one)
PrimeiroFaltante(data) ==
    IF "symbol" \notin DOMAIN data THEN "symbol"
    ELSE IF "tf" \notin DOMAIN data THEN "tf"
    ELSE IF "history" \notin DOMAIN data THEN "history"
    ELSE "partial_current"

\* the request just served left the PhaseState, the flag and the ledger alone
EstadoIntacto == UNCHANGED <<engine, engine_initialized>>

\* C6 (as amended): a /predict whose body is empty is rejected with "No data
\* provided"; one whose body is not empty and lacks one of symbol, tf,
\* history, partial_current is rejected with an error naming the first field
\* it lacks; one that has all four and a tf other than M15 or M30 is rejected
\* as unsupported; each time with status 400 and with the PhaseState, the
\* flag and the ledger unchanged.
C6_Rejeicao ==
    [][\A r \in 1..Len(Corpos) : Predict(r) =>
          LET data == Corpos[r]
              falta == CamposExigidos \ DOMAIN data
          IN  /\ DOMAIN data = {} =>
                    /\ last'.resp = [status |-> 400, error |-> <<"No data provided">>]
                    /\ EstadoIntacto
              /\ (DOMAIN data # {} /\ falta # {}) =>
                    /\ last'.resp = [status |-> 400,
                                     error |-> <<"Missing required field",
                                                 PrimeiroFaltante(data)>>]
                    /\ EstadoIntacto
              /\ (falta = {} /\ data.tf \notin {"M15", "M30"}) =>
                    /\ last'.resp =
                         [status |-> 400,
                          error |-> <<"Only M15 and M30 timeframes are supported">>]
                    /\ EstadoIntacto]_vars

\* a body without history was rejected by a server whose engine is
\* initialised and has a prediction in its ledger
C6_Witness ==
    /\ last.op = "predict"
    /\ "history" \notin DOMAIN Corpos[last.req]
    /\ last.resp = [status |-> 400, error |-> <<"Missing required field", "history">>]
    /\ engine_initialized
    /\ engine.historico_predicoes # <<>>

\* C6 (as stated): every /predict whose body lacks one of the four fields is
\* rejected with an error naming a field it lacks, and one with another tf
\* as unsupported, the state unchanged.
C6_ComoEscrita ==
    [][\A r \in 1..Len(Corpos) : Predict(r) =>
          LET data == Corpos[r]
              falta == CamposExigidos \ DOMAIN data
          IN  /\ falta # {} =>
                    /\ last'.resp.status = 400
                    /\ \E f \in falta :
                          last'.resp.error = <<"Missing required field", f>>
                    /\ EstadoIntacto
              /\ (falta = {} /\ data.tf \notin {"M15", "M30"}) =>
                    /\ last'.resp =
                         [status |-> 400,
                          error |-> <<"Only M15 and M30 timeframes are supported">>]
                    /\ EstadoIntacto]_vars

\* C7: fazer_predicao does not raise, and what it returns has a predicted
\* close, a colour Verde or Vermelho, a position CALL or PUT, the phase used
\* and an algorithm label (stated as the claim has it; arguments float()
\* rejects refute it).
C7_SempreValida ==
    last.op = "fazer_predicao" =>
        /\ ~last.raised
        /\ {"fechamento_predito", "cor_predita", "posicao", "fase_usada", "algoritmo"}
              \subseteq DOMAIN last.res
        /\ last.res.cor_predita \in {"Verde", "Vermelho"}
        /\ last.res.posicao \in {"CALL", "PUT"}

\* C8: a history with a candle that has no abertura is not accepted by
\* alimentar_dados (stated as the claim has it; candle.get('abertura', 0)
\* refutes it).
C8_SemSubstituto ==
    (/\ last.op = "alimentar_dados"
     /\ \E i \in 1..Len(last.arg) : "abertura" \notin DOMAIN last.arg[i])
        => ~last.res.sucesso

\* C9: the phase alimentar_dados reports from detectar_fase is 1 for an empty
\* history, 2 when the sum of the opens exceeds 1000 times their number, and
\* 1 otherwise; a mean of exactly 1000.0 gives 1 and a mean of 1000.1 gives 2.
C9_Limiar ==
    (last.op = "alimentar_dados" /\ last.res.sucesso) =>
        /\ last.res.fase_detectada =
              IF last.arg = <<>> THEN 1
              ELSE IF SomaAberturas(last.arg, Len(last.arg)) > 10000 * Len(last.arg)
              THEN 2 ELSE 1
        /\ last.arg = HistLimiar => last.res.fase_detectada = 1
        /\ last.arg = HistFase2 => last.res.fase_detectada = 2
        /\ last.arg # <<>> => engine.fase_detectada = last.res.fase_detectada

\* the history whose mean open is exactly 1000.0 was fed and found Phase 1
C9_Witness ==
    /\ last.op = "alimentar_dados"
    /\ last.arg = HistLimiar
    /\ last.res.sucesso
    /\ last.res.fase_detectada = 1
    /\ engine.fase_detectada = 1

\* C10: the prediction that follows the feeding of a Phase-1 history of fewer
\* than 10 candles is labelled with the key sum_last_3 and its predicted close
\* is low + (high - low) * 0.6 (stated as the claim has it; the key that
\* descobrir_chave_fase1 returns without storing refutes it).
C10_ChavePadrao ==
    [][(/\ last.op = "alimentar_dados"
        /\ last.res.sucesso
        /\ last.res.fase_detectada = 1
        /\ last.arg # <<>>
        /\ Len(last.arg) < 10
        /\ last'.op = "fazer_predicao"
        /\ "fase_usada" \in DOMAIN last'.res)
         => /\ last'.res.fase_usada = 1
            /\ last'.res.algoritmo = <<"Fase 1", "sum_last_3">>
            /\ last'.res.fechamento_predito =
                  Round4(Den * last'.res.minima_usada
                         + Coef(600) * (last'.res.maxima_usada
                                        - last'.res.minima_usada))]_vars

\* the position of a key in the order of funcoes_chave
PosicaoChave(nome) == CHOOSE k \in 1..Len(ChavesFase1) : ChavesFase1[k] = nome

\* C11: with 10 or more candles the key descobrir_chave_fase1 returns and
\* stores has a score no other key exceeds and strictly above the score of
\* every key before it in the order sum_last_3, 1st_digit_parity,
\* decimal_pattern, last_integer_digit (a tie keeps the earlier key); when
\* every score is 0 it is sum_last_3.
C11_MelhorChave ==
    (last.op = "descobrir_chave_fase1" /\ Len(last.arg) >= 10) =>
        LET score(k) == testar_chave_fase1(last.arg, ChavesFase1[k])
            kk == PosicaoChave(last.res)
        IN  /\ last.res \in {ChavesFase1[k] : k \in 1..Len(ChavesFase1)}
            /\ engine.chave_ativa_fase1 = last.res
            /\ \A j \in 1..Len(ChavesFase1) : score(kk).n * score(j).d >= score(j).n * score(kk).d
            /\ \A j \in 1..(kk - 1) : score(kk).n * score(j).d > score(j).n * score(kk).d
            /\ (\A j \in 1..Len(ChavesFase1) : score(j).n = 0) => last.res = "sum_last_3"

\* the second and the fourth key tie at the highest score, above the first:
\* the second is kept
C11_Witness ==
    /\ last.op = "descobrir_chave_fase1"
    /\ Len(last.arg) >= 10
    /\ last.res = "1st_digit_parity"
    /\ engine.chave_ativa_fase1 = "1st_digit_parity"
    /\ testar_chave_fase1(last.arg, "last_integer_digit")
         = testar_chave_fase1(last.arg, "1st_digit_parity")
    /\ testar_chave_fase1(last.arg, "1st_digit_parity").n > 0
    /\ testar_chave_fase1(last.arg, "sum_last_3").n
         < testar_chave_fase1(last.arg, "1st_digit_parity").n

\* C12: algoritmo_fibonacci_amplitude returns open + 0.618 * (high - open) when
\* open is below the midpoint (high + low) / 2 and open - 0.618 * (open - low)
\* otherwise, equality included; open 15, high 20, low 0 gives 5.73
C12_Fibonacci ==
    (last.op = "algoritmo_fibonacci_amplitude") =>
        LET a == last.arg[1]
            mx == last.arg[2]
            mn == last.arg[3]
        IN  /\ (2 * a < mx + mn) =>
                   1000 * last.res = Den * (1000 * a + 618 * (mx - a))
            /\ (2 * a >= mx + mn) =>
                   1000 * last.res = Den * (1000 * a - 618 * (a - mn))
            /\ (last.arg = <<150, 200, 0>>) => Round4(last.res) = 57300

\* the formula was applied to an open on the midpoint of a candle with high
\* above low, and took the bearish branch
C12_Witness ==
    /\ last.op = "algoritmo_fibonacci_amplitude"
    /\ last.arg = <<150, 200, 100>>
    /\ last.res < Den * 150

\* C13 as amended: open 10, high 20, low 0 (open equal to the midpoint) gives
\* 3.82, the bearish formula 10 - 0.618 * 10
C13_NoPontoMedio ==
    (last.op = "algoritmo_fibonacci_amplitude" /\ last.arg = <<100, 200, 0>>) =>
        Round4(last.res) = 38200

\* the formula was applied to open 10, high 20, low 0
C13_Witness ==
    /\ last.op = "algoritmo_fibonacci_amplitude"
    /\ last.arg = <<100, 200, 0>>

\* C13 as written: open 10, high 20, low 0 gives 16.18, the bullish formula
C13_Altista ==
    (last.op = "algoritmo_fibonacci_amplitude" /\ last.arg = <<100, 200, 0>>) =>
        Round4(last.res) = 161800

\* C14: predizer_fase1 returns low + (high - low) * 0.6 for sum_last_3, (open +
\* high + low) / 3 for the first-digit-parity key, low + (high - low) * 0.382
\* for decimal_pattern, open + (high - open) * 0.5 for last_integer_digit and
\* (open + high + low) / 3 for every other key, None included
C14_FormulasFase1 ==
    (last.op = "predizer_fase1") =>
        LET a == last.arg[1]
            mx == last.arg[2]
            mn == last.arg[3]
            chave == last.arg[4]
        IN  CASE chave = "sum_last_3" ->
                     10 * last.res = Den * (10 * mn + 6 * (mx - mn))
              [] chave = "decimal_pattern" ->
                     1000 * last.res = Den * (1000 * mn + 382 * (mx - mn))
              [] chave = "last_integer_digit" ->
                     2 * last.res = Den * (2 * a + (mx - a))
              [] OTHER -> 3 * last.res = Den * (a + mx + mn)

\* predizer_fase1 was called without a key and returned something other than
\* the open
C14_Witness ==
    /\ last.op = "predizer_fase1"
    /\ last.arg[4] = NoChave
    /\ last.res # Den * last.arg[1]

\* C15: in a successful prediction on four-decimal prices the colour is green
\* exactly when the predicted close returned is above the open (both in 1e-4
\* units), the position is CALL exactly when the colour is green and the
\* server's direction is up exactly when the colour is green
C15_CorPosicaoDirecao ==
    (last.op = "fazer_predicao" /\ ~last.raised /\ "erro" \notin DOMAIN last.res) =>
        /\ last.res.cor_predita \in {"Verde", "Vermelho"}
        /\ (last.res.cor_predita = "Verde") <=>
               (last.res.fechamento_predito > last.res.abertura_usada)
        /\ (last.res.posicao = "CALL") <=> (last.res.cor_predita = "Verde")
        /\ last.res.posicao \in {"CALL", "PUT"}
        /\ (last.resp.direction = "up") <=> (last.res.cor_predita = "Verde")

\* the parts of C15 that hold: the colour follows the predicted close before
\* rounding, the position and the direction follow the colour
C15_AntesDeArredondar ==
    (last.op = "fazer_predicao" /\ ~last.raised /\ "erro" \notin DOMAIN last.res) =>
        /\ (last.res.cor_predita = "Verde") =>
               last.res.fechamento_predito >= last.res.abertura_usada
        /\ (last.res.cor_predita = "Vermelho") =>
               last.res.fechamento_predito <= last.res.abertura_usada
        /\ (last.res.posicao = "CALL") <=> (last.res.cor_predita = "Verde")
        /\ (last.resp.direction = "up") <=> (last.res.cor_predita = "Verde")

\* the amplitude predictor has printed a prediction and exited with status 0
MainOk == last.op = "main" /\ last.exit = 0

\* C16: when current_high equals current_low, the prediction completes (no
\* division error, exit status 0) and reports current_amplitude 0.01, for
\* every current price, predicted close and elapsed time
C16_PisoAmplitude ==
    (/\ last.op = "main"
     /\ \A f \in CamposFloat : FloatOk(Obter(last.arg, f, Num(0)))
     /\ ~CandleSemChave(Obter(last.arg, "historical_candles", <<>>))
     /\ Entrada(last.arg).current_high = Entrada(last.arg).current_low) =>
        /\ last.exit = 0
        /\ "error" \notin DOMAIN last.out
        /\ last.out.current_amplitude = 100

\* a prediction on a candle with high = low whose current price and predicted
\* close are both off that level
C16_Witness ==
    /\ MainOk
    /\ Entrada(last.arg).current_high = Entrada(last.arg).current_low
    /\ Entrada(last.arg).current_price # Entrada(last.arg).current_low
    /\ Entrada(last.arg).predicted_close # Entrada(last.arg).current_low
    /\ last.out.current_amplitude = 100

\* C17: for elapsed_minutes / 15 in [0, 1] the confidence reported (in 1e-2
\* units) is min(95, 40 + 60 * elapsed_minutes / 15), lies in [40, 95], is 40
\* at 0 and 95 at 1; elapsed_minutes is q quarters of a minute
C17_Confianca ==
    LET q == FloatVal(Obter(last.arg, "elapsed_minutes", Num(0)))
    IN  (MainOk /\ 0 <= q /\ q <= 60) =>
            /\ last.out.confidence = Min({9500, 4000 + 100 * q})
            /\ 4000 <= last.out.confidence /\ last.out.confidence <= 9500
            /\ (q = 0) => last.out.confidence = 4000
            /\ (q = 60) => last.out.confidence = 9500

\* a prediction at elapsed fraction 1, where the cap of 95 is what is reported
C17_Witness ==
    /\ MainOk
    /\ FloatVal(Obter(last.arg, "elapsed_minutes", Num(0))) = 60
    /\ last.out.confidence = 9500

\* x is within [0, 1]
EmZeroUm(x) == RLe(Zero, x) /\ RLe(x, R(1, 1))

\* C18: each of the four components of expansion_probability is within [0, 1]
\* before weighting, the breakout component is 0.9 exactly when predicted_close
\* is strictly outside [low, high] and 0.5 otherwise, and the final value is
\* the weighted sum and is within [0, 1]
C18_Componentes ==
    MainOk =>
        LET a == Entrada(last.arg)
            amp == current_amplitude(a.current_high, a.current_low)
            pred_amp == predicted_amplitude(AmplitudePredictor(a.historical_candles), amp,
                                            a.elapsed_minutes, a.predicted_close,
                                            a.current_high, a.current_low)
            fora == \/ RLt(a.current_high, a.predicted_close)
                    \/ RLt(a.predicted_close, a.current_low)
            final == _calculate_expansion_probability(
                         amp, pred_amp, a.elapsed_minutes, a.current_price,
                         a.current_high, a.current_low, a.predicted_close)
        IN  /\ EmZeroUm(growth_factor_expansao(amp, pred_amp))
            /\ EmZeroUm(position_factor(amp, a.current_price, a.current_low))
            /\ EmZeroUm(time_factor(a.elapsed_minutes))
            /\ EmZeroUm(prediction_factor(a.predicted_close, a.current_high, a.current_low))
            /\ prediction_factor(a.predicted_close, a.current_high, a.current_low)
                   = IF fora THEN R(9, 10) ELSE R(5, 10)
            /\ EmZeroUm(final)
            /\ final = expansion_prob(amp, pred_amp, a.elapsed_minutes, a.current_price,
                                      a.current_high, a.current_low, a.predicted_close)
            /\ last.out.expansion_probability = RoundDec(final, 4)

\* the parts of C18 that hold: three components and the final value are within
\* [0, 1], and the breakout component is 0.9 exactly when predicted_close is
\* strictly outside [low, high]
C18_SemPosicao ==
    MainOk =>
        LET a == Entrada(last.arg)
            amp == current_amplitude(a.current_high, a.current_low)
            pred_amp == predicted_amplitude(AmplitudePredictor(a.historical_candles), amp,
                                            a.elapsed_minutes, a.predicted_close,
                                            a.current_high, a.current_low)
            fora == \/ RLt(a.current_high, a.predicted_close)
                    \/ RLt(a.predicted_close, a.current_low)
        IN  /\ EmZeroUm(growth_factor_expansao(amp, pred_amp))
            /\ EmZeroUm(time_factor(a.elapsed_minutes))
            /\ prediction_factor(a.predicted_close, a.current_high, a.current_low)
                   = IF fora THEN R(9, 10) ELSE R(5, 10)
            /\ 0 <= last.out.expansion_probability
            /\ last.out.expansion_probability <= 10000

\* C19: percentile_position is the first of 95, 90, 75, 50, 25, 10 whose stored
\* amplitude is at most the predicted amplitude, and 10 when none is or when
\* the table is empty
C19_PosicaoPercentil ==
    MainOk =>
        LET a == Entrada(last.arg)
            self == AmplitudePredictor(a.historical_candles)
            pred_amp == predicted_amplitude(self, current_amplitude(a.current_high,
                                                                    a.current_low),
                                            a.elapsed_minutes, a.predicted_close,
                                            a.current_high, a.current_low)
            tabela == self.amplitude_percentiles
            cabem == {p \in DOMAIN tabela : RLe(tabela[p], pred_amp)}
        IN  last.out.percentile_position =
                IF cabem = {} THEN 10 ELSE CHOOSE p \in cabem : \A q \in cabem : q <= p

\* the part of C19 that holds: with a table that is not empty the scan is as
\* stated
C19_TabelaNaoVazia ==
    MainOk =>
        LET a == Entrada(last.arg)
            self == AmplitudePredictor(a.historical_candles)
            pred_amp == predicted_amplitude(self, current_amplitude(a.current_high,
                                                                    a.current_low),
                                            a.elapsed_minutes, a.predicted_close,
                                            a.current_high, a.current_low)
            tabela == self.amplitude_percentiles
            cabem == {p \in DOMAIN tabela : RLe(tabela[p], pred_amp)}
        IN  (DOMAIN tabela # {}) =>
                last.out.percentile_position =
                    IF cabem = {} THEN 10 ELSE CHOOSE p \in cabem : \A q \in cabem : q <= p

\* the four rules of the movement classification, on the values the prediction
\* hands to it: [pullback, gain_strength, consolidate, reverse_color]
RegrasMovimento(input_data) ==
    LET a == Entrada(input_data)
        amp == current_amplitude(a.current_high, a.current_low)
        pred_amp == predicted_amplitude(AmplitudePredictor(a.historical_candles), amp,
                                        a.elapsed_minutes, a.predicted_close,
                                        a.current_high, a.current_low)
        ep == _calculate_expansion_probability(amp, pred_amp, a.elapsed_minutes,
                                               a.current_price, a.current_high,
                                               a.current_low, a.predicted_close)
        pp == posicao_no_range(a.current_price, a.current_low, amp).v
        ppp == posicao_no_range(a.predicted_close, a.current_low, amp).v
        dist == distance_ratio(a.current_price, a.current_high, a.current_low,
                               a.predicted_close).v
    IN  [pullback |-> \/ RLt(R(75, 100), pp) /\ RLt(ppp, R(6, 10))
                      \/ RLt(pp, R(25, 100)) /\ RLt(R(4, 10), ppp),
         gain_strength |-> RLt(R(7, 10), ep) /\ RLt(R(3, 10), dist),
         consolidate |-> RLt(ep, R(4, 10)) /\ RLt(dist, R(2, 10)),
         reverse_color |-> will_reverse_color(a.current_price, a.current_high,
                                              a.current_low, a.predicted_direction, ep)]

\* C20: the expectation is the first rule that matches, in the order PULLBACK
\* (0.75), GAIN_STRENGTH (0.80), CONSOLIDATE (0.70), REVERSE_COLOR (0.65),
\* NEUTRAL (0.50); when the PULLBACK condition holds the expectation is
\* PULLBACK whatever the expansion probability and the distance ratio are
C20_Cascata ==
    MainOk =>
        LET r == RegrasMovimento(last.arg)
            rec == last.out.recommendation
            par == <<rec.movement_expectation, rec.movement_confidence>>
        IN  /\ r.pullback => par = <<"PULLBACK", 75>>
            /\ (~r.pullback /\ r.gain_strength) => par = <<"GAIN_STRENGTH", 80>>
            /\ (~r.pullback /\ ~r.gain_strength /\ r.consolidate) =>
                   par = <<"CONSOLIDATE", 70>>
            /\ (~r.pullback /\ ~r.gain_strength /\ ~r.consolidate /\ r.reverse_color) =>
                   par = <<"REVERSE_COLOR", 65>>
            /\ (~r.pullback /\ ~r.gain_strength /\ ~r.consolidate /\ ~r.reverse_color) =>
                   par = <<"NEUTRAL", 50>>

\* a prediction for which the PULLBACK and the GAIN_STRENGTH rules both match
\* and PULLBACK is reported
C20_Witness ==
    /\ MainOk
    /\ RegrasMovimento(last.arg).pullback
    /\ RegrasMovimento(last.arg).gain_strength
    /\ last.out.recommendation.movement_expectation = "PULLBACK"

\* the GAIN_STRENGTH and CONSOLIDATE rules with the distance measured against
\* the amplitude floored at 0.01: [gain_strength, consolidate]
RegrasComPiso(input_data) ==
    LET a == Entrada(input_data)
        amp == current_amplitude(a.current_high, a.current_low)
        pred_amp == predicted_amplitude(AmplitudePredictor(a.historical_candles), amp,
                                        a.elapsed_minutes, a.predicted_close,
                                        a.current_high, a.current_low)
        ep == _calculate_expansion_probability(amp, pred_amp, a.elapsed_minutes,
                                               a.current_price, a.current_high,
                                               a.current_low, a.predicted_close)
        dist == RDiv(RAbs(RSub(a.predicted_close, a.current_price)), amp)
    IN  [gain_strength |-> RLt(R(7, 10), ep) /\ RLt(R(3, 10), dist),
         consolidate |-> RLt(ep, R(4, 10)) /\ RLt(dist, R(2, 10))]

\* C21: the GAIN_STRENGTH and CONSOLIDATE rules reported are those computed
\* with distance_ratio = |predicted_close - current_price| / current_amplitude,
\* current_amplitude being the amplitude floored at 0.01 when high equals low
C21_DistanciaComPiso ==
    MainOk =>
        /\ last.out.recommendation.will_gain_strength
               = RegrasComPiso(last.arg).gain_strength
        /\ last.out.recommendation.will_consolidate
               = RegrasComPiso(last.arg).consolidate

\* the part of C21 that holds: on a candle whose high is above its low the
\* two rules are as stated
C21_ComAmplitude ==
    (MainOk /\ RLt(Entrada(last.arg).current_low, Entrada(last.arg).current_high)) =>
        /\ last.out.recommendation.will_gain_strength
               = RegrasComPiso(last.arg).gain_strength
        /\ last.out.recommendation.will_consolidate
               = RegrasComPiso(last.arg).consolidate

\* the expansion probability of a prediction before it is rounded
ProbabilidadeDe(input_data) ==
    LET a == Entrada(input_data)
        amp == current_amplitude(a.current_high, a.current_low)
        pred_amp == predicted_amplitude(AmplitudePredictor(a.historical_candles), amp,
                                        a.elapsed_minutes, a.predicted_close,
                                        a.current_high, a.current_low)
    IN  _calculate_expansion_probability(amp, pred_amp, a.elapsed_minutes,
                                         a.current_price, a.current_high,
                                         a.current_low, a.predicted_close)

\* the entry-strategy cascade with HIGH_CONFIDENCE open to elapsed fractions
\* above limiar: <<strategy, modifier, stake tier, risk>>
CascataEstrategia(input_data, expectation, movement_confidence, limiar) ==
    LET ep == ProbabilidadeDe(input_data)
        fracao == RDiv(Entrada(input_data).elapsed_minutes, R(15, 1))
    IN  IF /\ expectation = "GAIN_STRENGTH"
           /\ RLt(R(75, 100), ep)
           /\ movement_confidence > 75
           /\ RLt(limiar, fracao)
        THEN <<"HIGH_CONFIDENCE", 25, "HIGH", "MEDIUM">>
        ELSE IF expectation \in {"PULLBACK", "REVERSE_COLOR"}
        THEN <<"DEFENSE", -20, "LOW", "HIGH">>
        ELSE IF expectation = "CONSOLIDATE"
        THEN <<"WAIT", -30, "NONE", "HIGH">>
        ELSE IF RLt(R(5, 10), ep) /\ RLt(ep, R(75, 100))
        THEN <<"HEDGE", 0, "NORMAL", "MEDIUM">>
        ELSE <<"NEUTRAL", 0, "NORMAL", "MEDIUM">>

\* what a prediction reports as its entry strategy
EstrategiaReportada ==
    LET rec == last.out.recommendation
    IN  <<rec.entry_strategy, rec.confidence_modifier, rec.suggested_stake_type,
          rec.risk_level>>

\* C22: the entry strategy is the first match of HIGH_CONFIDENCE, DEFENSE,
\* WAIT, HEDGE, NEUTRAL, with HIGH_CONFIDENCE requiring more than 12.5 of the
\* 15 minutes elapsed (elapsed fraction above 12.5 / 15); DEFENSE is reported
\* exactly when the expectation is PULLBACK or REVERSE_COLOR and WAIT exactly
\* when it is CONSOLIDATE
C22_Estrategia ==
    MainOk =>
        LET rec == last.out.recommendation
        IN  /\ EstrategiaReportada
                   = CascataEstrategia(last.arg, rec.movement_expectation,
                                       rec.movement_confidence, R(125, 150))
            /\ (rec.entry_strategy = "DEFENSE")
                   <=> (rec.movement_expectation \in {"PULLBACK", "REVERSE_COLOR"})
            /\ (rec.entry_strategy = "WAIT") <=> (rec.movement_expectation = "CONSOLIDATE")

\* a GAIN_STRENGTH prediction with expansion probability above 0.75 at exactly
\* 12.5 minutes, which is not HIGH_CONFIDENCE
C22_Witness ==
    /\ MainOk
    /\ last.out.recommendation.movement_expectation = "GAIN_STRENGTH"
    /\ RLt(R(75, 100), ProbabilidadeDe(last.arg))
    /\ Entrada(last.arg).elapsed_minutes = R(125, 10)
    /\ last.out.recommendation.entry_strategy # "HIGH_CONFIDENCE"

\* a prediction that is HIGH_CONFIDENCE
C22_AltaConfianca ==
    MainOk /\ last.out.recommendation.entry_strategy = "HIGH_CONFIDENCE"

\* C22 as written: HIGH_CONFIDENCE for every elapsed fraction above 0.833
C22_Fracao833 ==
    MainOk =>
        EstrategiaReportada
            = CascataEstrategia(last.arg, last.out.recommendation.movement_expectation,
                                last.out.recommendation.movement_confidence,
                                R(833, 1000))

\* the three components of the predicted amplitude as C23 states them, for
\* current amplitude cur, historical mean media, elapsed fraction fracao,
\* predicted close pc and the candle's high and low: <<T, M, P>>
ComponentesC23(cur, media, fracao, pc, high, low) ==
    LET g == IF RLt(fracao, R(33, 100)) THEN R(18, 10)
             ELSE IF RLt(fracao, R(67, 100)) THEN R(14, 10)
             ELSE IF RLt(fracao, R(83, 100)) THEN R(12, 10)
             ELSE R(115, 100)
        T == RMul(cur, g)
        M == IF media = Zero THEN T
             ELSE IF RLt(R(15, 10), RDiv(cur, media)) THEN RMul(cur, R(105, 100))
             ELSE IF RLt(RDiv(cur, media), R(5, 10)) THEN RMul(media, R(8, 10))
             ELSE media
        P == IF RLt(high, pc) THEN RMul(RSub(pc, low), R(11, 10))
             ELSE IF RLt(pc, low) THEN RMul(RSub(high, pc), R(11, 10))
             ELSE RMul(cur, R(105, 100))
    IN  <<T, M, P>>

\* the components of C23 for the input of a prediction
ComponentesDe(input_data) ==
    LET a == Entrada(input_data)
    IN  ComponentesC23(current_amplitude(a.current_high, a.current_low),
                       AmplitudePredictor(a.historical_candles).mean_amplitude,
                       RDiv(a.elapsed_minutes, R(15, 1)),
                       a.predicted_close, a.current_high, a.current_low)

\* C23: the predicted amplitude reported (four decimals) is 0.3 * T + 0.3 * M
\* + 0.4 * P, with T the time extrapolation by elapsed-fraction bucket, M the
\* historical-mean estimate (T when the mean is 0) and P the estimate from the
\* predicted close
C23_AmplitudePrevista ==
    (MainOk /\ RLe(Entrada(last.arg).elapsed_minutes, R(15, 1))) =>
        LET c == ComponentesDe(last.arg)
        IN  last.out.predicted_amplitude
                = RoundDec(RAdd(RAdd(RMul(R(3, 10), c[1]), RMul(R(3, 10), c[2])),
                                RMul(R(4, 10), c[3])), 4)

\* a prediction with no history (mean 0, so M is T), elapsed fraction in
\* [0.67, 0.83) and a predicted close above the high
C23_Witness ==
    /\ MainOk
    /\ AmplitudePredictor(Entrada(last.arg).historical_candles).mean_amplitude = Zero
    /\ Entrada(last.arg).elapsed_minutes = R(41, 4)
    /\ RLt(Entrada(last.arg).current_high, Entrada(last.arg).predicted_close)
    /\ ComponentesDe(last.arg)[2] = ComponentesDe(last.arg)[1]
    /\ last.out.predicted_amplitude > 0

\* the k-th smallest element of a list of floats
EstatisticaDeOrdem(s, k) ==
    CHOOSE x \in {s[i] : i \in 1..Len(s)} :
        /\ Cardinality({i \in 1..Len(s) : RLt(s[i], x)}) < k
        /\ k <= Cardinality({i \in 1..Len(s) : RLe(s[i], x)})

\* the value at index p / 100 * (n - 1) of the sorted list s, interpolated
\* linearly between the two neighbouring order statistics
Interpolado(s, p) ==
    LET posicao == p * (Len(s) - 1)
        abaixo == posicao \div 100
        resto == R(posicao % 100, 100)
    IN  IF posicao % 100 = 0 THEN EstatisticaDeOrdem(s, abaixo + 1)
        ELSE RAdd(EstatisticaDeOrdem(s, abaixo + 1),
                  RMul(resto, RSub(EstatisticaDeOrdem(s, abaixo + 2),
                                   EstatisticaDeOrdem(s, abaixo + 1))))

\* the amplitudes of a history that are not zero
AmplitudesNaoNulas(historical_candles) ==
    SelectSeq([i \in 1..Len(historical_candles) |->
                   RSub(Preco(historical_candles[i].maxima.n),
                        Preco(historical_candles[i].minima.n))],
              LAMBDA x : x # Zero)

\* C24: the percentile table is built over the historical amplitudes with the
\* zero amplitudes left out, by linear interpolation at index p / 100 * (n - 1);
\* for the sample 1, 2, 3, 4, 5 (hundredths) the 50th percentile is 3 and the
\* 75th is 4, both at an exact index, and the 90th is interpolated between the
\* 4th and 5th order statistics: 4.6
C24_Percentis ==
    MainOk =>
        LET h == Entrada(last.arg).historical_candles
            tabela == AmplitudePredictor(h).amplitude_percentiles
            s == AmplitudesNaoNulas(h)
        IN  /\ (s # <<>>) =>
                   /\ DOMAIN tabela = {10, 25, 50, 75, 90, 95}
                   /\ \A p \in DOMAIN tabela : tabela[p] = Interpolado(s, p)
            /\ (s = <<>>) => DOMAIN tabela = {}
            /\ (h = HistAmpCinco) =>
                   /\ Len(s) = 5
                   /\ \A k \in 1..5 : EstatisticaDeOrdem(s, k) = Preco(k)
                   /\ tabela[50] = Preco(3)
                   /\ tabela[75] = Preco(4)
                   /\ tabela[90] = R(46, 1000)

\* a prediction made with the history of amplitudes 3, 1, 5, 0, 2, 4
\* hundredths, whose 75th percentile is the 4th order statistic
C24_Witness ==
    /\ MainOk
    /\ Entrada(last.arg).historical_candles = HistAmpCinco
    /\ Len(AmplitudesNaoNulas(HistAmpCinco)) = 5
    /\ AmplitudePredictor(Entrada(last.arg).historical_candles).amplitude_percentiles[75]
           = Preco(4)

\* C24 as written: for the sample 1, 2, 3, 4, 5 the 75th percentile lies
\* strictly between the 4th and 5th order statistics
C24_SetentaECincoInterpolado ==
    (MainOk /\ Entrada(last.arg).historical_candles = HistAmpCinco) =>
        LET tabela == AmplitudePredictor(HistAmpCinco).amplitude_percentiles
        IN  /\ tabela[50] = Preco(3)
            /\ RLt(Preco(4), tabela[75])
            /\ RLt(tabela[75], Preco(5))

\* the engine with its ledger emptied
SemLedger(eng) == [eng EXCEPT !.historico_predicoes = <<>>]

\* C25: a successful fazer_predicao appends exactly one entry, the prediction
\* it returns, at the end of the ledger; a failed one appends none;
\* confirmar_resultado, alimentar_dados and obter_estatisticas leave the
\* ledger as it is; and what fazer_predicao returns does not depend on the
\* ledger
C25_SoAcrescenta ==
    [][LET antes == engine.historico_predicoes
           depois == engine'.historico_predicoes
       IN  /\ (last'.op = "fazer_predicao" /\ "erro" \notin DOMAIN last'.res) =>
                  /\ depois = Append(antes, last'.res)
                  /\ Len(depois) = Len(antes) + 1
                  /\ \A i \in 1..Len(antes) : depois[i] = antes[i]
           /\ (last'.op = "fazer_predicao" /\ "erro" \in DOMAIN last'.res) =>
                  depois = antes
           /\ (last'.op = "fazer_predicao") =>
                  last'.res = fazer_predicao(SemLedger(engine), last'.arg[1],
                                             last'.arg[2], last'.arg[3], now).res
           /\ (last'.op \in {"confirmar_resultado", "alimentar_dados",
                             "obter_estatisticas"}) => depois = antes
      ]_vars

\* a result has been confirmed on a ledger of two entries and both entries
\* are still what the predictions returned (the second was made at clock 1)
C25_Witness ==
    /\ last.op = "confirmar_resultado"
    /\ "erro" \notin DOMAIN last.res
    /\ Len(engine.historico_predicoes) = 2
    /\ engine.historico_predicoes[2].timestamp = 1
    /\ engine.estatisticas.total_predicoes = 1

\* the pairs of the backtest of key nome on which nothing throws
ParesUsaveis(dados, nome) == {i \in 2..Len(dados) : ParUsavel(dados, nome, i)}

\* the key the discovery picks when every key scores pontos[nome]: the first
\* of the table with the highest score above 0, else sum_last_3
Vencedora(pontos) ==
    LET positivas == {k \in 1..Len(ChavesFase1) : pontos[ChavesFase1[k]].n > 0}
        melhores == {k \in positivas :
                        \A j \in positivas :
                            ~FracMaior(pontos[ChavesFase1[j]], pontos[ChavesFase1[k]])}
    IN  IF melhores = {} THEN "sum_last_3"
        ELSE ChavesFase1[CHOOSE k \in melhores : \A j \in melhores : k <= j]

\* C26: in the backtest of a key a pair on which something throws is skipped,
\* and a key with fewer than 5 usable pairs scores 0, so that the discovery
\* picks the key that is best among those scores
C26_MenosDeCincoPares ==
    (last.op = "descobrir_chave_fase1" /\ Len(last.arg) >= MinCandlesChave) =>
        LET pontos == [nome \in {ChavesFase1[k] : k \in 1..Len(ChavesFase1)} |->
                          LET usaveis == ParesUsaveis(last.arg, nome)
                              acertos == {i \in usaveis : ParAcerto(last.arg, nome, i)}
                          IN  IF Cardinality(usaveis) < 5 THEN [n |-> 0, d |-> 1]
                              ELSE [n |-> Cardinality(acertos),
                                    d |-> Cardinality(usaveis)]]
        IN  /\ \A nome \in DOMAIN pontos :
                   LET score == testar_chave_fase1(last.arg, nome)
                   IN  score.n * pontos[nome].d = pontos[nome].n * score.d
            /\ last.res = Vencedora(pontos)

\* the part of C26 that holds: the pairs on which something throws are left
\* out of the score, which is hits over usable pairs, and the discovery still
\* returns a key
C26_ParesIgnorados ==
    (last.op = "descobrir_chave_fase1" /\ Len(last.arg) >= MinCandlesChave) =>
        LET pontos == [nome \in {ChavesFase1[k] : k \in 1..Len(ChavesFase1)} |->
                          LET usaveis == ParesUsaveis(last.arg, nome)
                              acertos == {i \in usaveis : ParAcerto(last.arg, nome, i)}
                          IN  IF usaveis = {} THEN [n |-> 0, d |-> 1]
                              ELSE [n |-> Cardinality(acertos),
                                    d |-> Cardinality(usaveis)]]
        IN  /\ \A nome \in DOMAIN pontos :
                   LET score == testar_chave_fase1(last.arg, nome)
                   IN  score.n * pontos[nome].d = pontos[nome].n * score.d
            /\ last.res = Vencedora(pontos)
            /\ ~last.raised

\* C27: the phase a successful alimentar_dados reports is the phase stored in
\* the engine and the fase_usada of the prediction that follows it, and no
\* operation other than a feed changes the stored phase, so that it is the
\* fase_usada of every later prediction as well; for every history, the empty
\* one included
C27_FaseReportada ==
    [][/\ (last'.op = "alimentar_dados" /\ last'.res.sucesso) =>
              engine'.fase_detectada = last'.res.fase_detectada
       /\ (/\ last.op = "alimentar_dados" /\ last.res.sucesso
           /\ last'.op = "fazer_predicao" /\ "erro" \notin DOMAIN last'.res) =>
              last'.res.fase_usada = last.res.fase_detectada
       /\ (/\ last.op = "fazer_predicao" /\ "erro" \notin DOMAIN last.res
           /\ last'.op = "fazer_predicao" /\ "erro" \notin DOMAIN last'.res) =>
              last'.res.fase_usada = last.res.fase_usada
       /\ (last'.op \in {"fazer_predicao", "confirmar_resultado",
                         "obter_estatisticas"}) =>
              engine'.fase_detectada = engine.fase_detectada
      ]_vars

\* the part of C27 that holds: the same for the histories that are not empty
C27_HistoricoNaoVazio ==
    [][/\ (last'.op = "alimentar_dados" /\ last'.res.sucesso /\ last'.arg # <<>>) =>
              engine'.fase_detectada = last'.res.fase_detectada
       /\ (/\ last.op = "alimentar_dados" /\ last.res.sucesso /\ last.arg # <<>>
           /\ last'.op = "fazer_predicao" /\ "erro" \notin DOMAIN last'.res) =>
              last'.res.fase_usada = last.res.fase_detectada
       /\ (/\ last.op = "fazer_predicao" /\ "erro" \notin DOMAIN last.res
           /\ last'.op = "fazer_predicao" /\ "erro" \notin DOMAIN last'.res) =>
              last'.res.fase_usada = last.res.fase_usada
       /\ (last'.op \in {"fazer_predicao", "confirmar_resultado",
                         "obter_estatisticas"}) =>
              engine'.fase_detectada = engine.fase_detectada
      ]_vars

\* C28: 0 <= acertos <= total_predicoes <= number of ledger entries, the
\* accuracy is 100 * acertos / total_predicoes (0 when nothing was confirmed),
\* confirmar_resultado scores the entry appended last, and on an empty ledger
\* it returns an error and leaves the counters as they were
C28_Contadores ==
    LET e == engine.estatisticas
        n == Len(engine.historico_predicoes)
    IN  /\ 0 <= e.acertos
        /\ e.acertos <= e.total_predicoes
        /\ e.total_predicoes <= n
        /\ e.assertividade.n * (IF e.total_predicoes = 0 THEN 1 ELSE e.total_predicoes)
               = 100 * e.acertos * e.assertividade.d
        /\ (last.op = "confirmar_resultado" /\ "erro" \notin DOMAIN last.res) =>
               /\ n > 0
               /\ last.res.cor_predita = engine.historico_predicoes[n].cor_predita
               /\ last.res.fechamento_predito
                      = engine.historico_predicoes[n].fechamento_predito
               /\ last.res.acerto_cor
                      = ((IF FloatVal(last.arg) > engine.historico_predicoes[n].abertura_usada
                          THEN "Verde" ELSE "Vermelho")
                         = engine.historico_predicoes[n].cor_predita)
        /\ (last.op = "confirmar_resultado" /\ n = 0) =>
               /\ "erro" \in DOMAIN last.res
               /\ e.total_predicoes = 0 /\ e.acertos = 0

\* the part of C28 that holds: everything but total_predicoes <= number of
\* ledger entries
C28_SemLimiteDoLedger ==
    LET e == engine.estatisticas
        n == Len(engine.historico_predicoes)
    IN  /\ 0 <= e.acertos
        /\ e.acertos <= e.total_predicoes
        /\ e.assertividade.n * (IF e.total_predicoes = 0 THEN 1 ELSE e.total_predicoes)
               = 100 * e.acertos * e.assertividade.d
        /\ (last.op = "confirmar_resultado" /\ "erro" \notin DOMAIN last.res) =>
               /\ n > 0
               /\ last.res.cor_predita = engine.historico_predicoes[n].cor_predita
               /\ last.res.fechamento_predito
                      = engine.historico_predicoes[n].fechamento_predito
               /\ last.res.acerto_cor
                      = ((IF FloatVal(last.arg) > engine.historico_predicoes[n].abertura_usada
                          THEN "Verde" ELSE "Vermelho")
                         = engine.historico_predicoes[n].cor_predita)
        /\ (last.op = "confirmar_resultado" /\ n = 0) =>
               /\ "erro" \in DOMAIN last.res
               /\ e.total_predicoes = 0 /\ e.acertos = 0

\* C29: for a Phase-2 prediction with low <= open <= high the predicted close
\* before rounding lies within [low, high], and the colour (green when that
\* close is above the open) is green exactly when the open is strictly below
\* the midpoint of high and low
C29_DentroDaFaixa ==
    /\ (/\ last.op = "algoritmo_fibonacci_amplitude"
        /\ last.arg[3] <= last.arg[1] /\ last.arg[1] <= last.arg[2]) =>
           /\ Den * last.arg[3] <= last.res
           /\ last.res <= Den * last.arg[2]
           /\ (last.res > Den * last.arg[1])
                  <=> (2 * last.arg[1] < last.arg[2] + last.arg[3])
    /\ (/\ last.op = "fazer_predicao" /\ "erro" \notin DOMAIN last.res
        /\ last.res.fase_usada = 2
        /\ last.arg[3] <= last.arg[1] /\ last.arg[1] <= last.arg[2]) =>
           /\ (last.res.cor_predita = "Verde")
                  <=> (2 * last.arg[1] < last.arg[2] + last.arg[3])
           /\ last.arg[3] <= last.res.fechamento_predito
           /\ last.res.fechamento_predito <= last.arg[2]

\* a Phase-2 prediction on a candle with low < open < high whose open is on
\* the midpoint: red, with a close inside the range
C29_Witness ==
    /\ last.op = "fazer_predicao" /\ "erro" \notin DOMAIN last.res
    /\ last.res.fase_usada = 2
    /\ last.arg[3] < last.arg[1] /\ last.arg[1] < last.arg[2]
    /\ 2 * last.arg[1] = last.arg[2] + last.arg[3]
    /\ last.res.cor_predita = "Vermelho"

\* C30: a /predict that is answered with an error, 400 or 500, leaves the
\* PhaseState, the initialised flag and the ledger as they were
C30_ErroSemEfeito ==
    [][\A r \in 1..Len(Corpos) :
          (Predict(r) /\ last'.resp.status \in {400, 500}) => EstadoIntacto]_vars

\* the part of C30 that holds: a 400 leaves the state as it was, a 500 leaves
\* the ledger as it was, and a 500 answered by a server that was already
\* initialised leaves everything as it was
C30_QuatrocentosOuInicializado ==
    [][\A r \in 1..Len(Corpos) :
          /\ (Predict(r) /\ last'.resp.status = 400) => EstadoIntacto
          /\ (Predict(r) /\ last'.resp.status = 500) =>
                 engine'.historico_predicoes = engine.historico_predicoes
          /\ (Predict(r) /\ last'.resp.status = 500 /\ engine_initialized) =>
                 EstadoIntacto]_vars

============================================================================
